---- MODULE Spec2Model ----
(***************************************************************************)
(* Model of the room / transcription fan-out engine of wilberforceDemoBE.  *)
(*                                                                         *)
(* WebSocketService (src/src/services/openaiService.ts, lines 374-689)     *)
(* keeps three process-wide maps (connectedUsers, roomListeners,           *)
(* activeTranscriptions) and reacts to socket.io events.  Handlers are     *)
(* async functions running on one event loop: a handler runs without       *)
(* interruption up to an await on a collaborator (the database or the      *)
(* translation service), and any other event or continuation may run       *)
(* while it is suspended.  Every action below is one such uninterrupted    *)
(* run: the receipt of an event up to its first suspension, or the         *)
(* continuation after a collaborator answered up to the next suspension.   *)
(***************************************************************************)
EXTENDS Integers, Sequences, FiniteSets, TLC

\* ------------------------------------------------------------------ bounds
\* Number of transcript-text handlers that may be suspended on a collaborator
\* at once.  A connection has at most one join-room outstanding.
MaxTexts == 1

\* ----------------------------------------------------------------- domains
\* Two client connections.  Each sends its own preferred language, and names
\* in its events only room codes it knows: s1 knows one room, s2 knows both.
Sockets == {"s1", "s2"}
Rooms == {"R1", "R2"}
SourceLanguage == "en"
LanguageOf(s) == IF s = "s1" THEN "en" ELSE "es"
RoomCodesOf(s) == IF s = "s1" THEN {"R1"} ELSE Rooms
\* Payloads of transcript-text: empty, blank, and texts that trimming changes.
TextInputs == {<< >>, <<" ">>, <<" ", "a">>}

NoUser == [socketId |-> "-", roomCode |-> "-", role |-> "-", language |-> "-"]
Null == <<"null">>
Dirty == <<"dirty">>
Idle == [kind |-> "idle"]

VARIABLES
    status,               \* socket id -> "connected" | "disconnected"
    connectedUsers,       \* socket id -> ConnectedUser record, or NoUser
    roomListeners,        \* room code -> set of socket ids (partial map)
    activeTranscriptions, \* room code -> BOOLEAN (partial map)
    ioRooms,              \* socket id -> socket.io rooms the socket is in
    joining,              \* socket id -> its suspended handleJoinRoom, or Idle
    texts,                \* suspended handleTranscriptText, in order of receipt
    out,                  \* what the last step emitted / persisted
    sessionContexts,      \* session id -> transcription session (partial map)
    audio,                \* suspended processAudioChunk calls, in order of call
    answered,             \* session id -> what the transcription service last
                          \* answered a call working on the session's object
    transcripts,          \* the rows saveTranscript inserted, in order; kept
                          \* while the transcripts table is watched
    watch,                \* the handler groups whose output `out` records
    joinSeq               \* room code -> the distinct connections whose joins
                          \* registered since the room last had no membership
                          \* entry, in order; Dirty once anything else
                          \* (a leave, a repeated join, a member joining
                          \* another room) has touched the room; kept while
                          \* the room handlers are watched

vars == <<status, connectedUsers, roomListeners, activeTranscriptions,
          ioRooms, joining, texts, out, sessionContexts, audio, answered,
          transcripts, watch, joinSeq>>

\* --------------------------------------------------------------- utilities
Range(q) == {q[i] : i \in 1..Len(q)}

RemoveAt(q, i) == SubSeq(q, 1, i - 1) \o SubSeq(q, i + 1, Len(q))

ReplaceAt(q, i, h) == [q EXCEPT ![i] = h]

\* Map.get(key) || default
MapGet(m, k, default) == IF k \in DOMAIN m THEN m[k] ELSE default

\* Map.set(key, value)
MapSet(m, k, v) == [x \in (DOMAIN m) \cup {k} |-> IF x = k THEN v ELSE m[x]]

\* Map.delete(key)
MapDelete(m, k) == [x \in (DOMAIN m) \ {k} |-> m[x]]

Connected(st) == {s \in Sockets : st[s] = "connected"}

\* Sockets a broadcast to socket.io room r reaches: the adapter skips ids
\* whose socket no longer exists.
InRoom(io, st, r) == {s \in Connected(st) : r \in io[s]}

\* One emitted event (or one record written through a collaborator, with
\* to = {}).  `to` holds the connections that receive it.
Msg(ev, to, roomCode, role, language, message, original, translated) ==
    [ev |-> ev, to |-> to, roomCode |-> roomCode, role |-> role,
     language |-> language, message |-> message,
     originalText |-> original, translatedText |-> translated]

ErrorMsgToAll(st, s, message) ==
    Msg("error", Connected(st), "-", "-", "-", message, <<>>, <<>>)

ErrorMsg(st, s, message) ==
    Msg("error", {s} \cap Connected(st), "-", "-", "-", message, <<>>, <<>>)

RoomJoinedMsgToAll(st, s, success) ==
    Msg("room-joined", Connected(st), "-", "-", "-",
        IF success THEN "success" ELSE "Room not found", <<>>, <<>>)

RoomJoinedMsg(st, s, success) ==
    Msg("room-joined", {s} \cap Connected(st), "-", "-", "-",
        IF success THEN "success" ELSE "Room not found", <<>>, <<>>)

UserJoinedMsg(io, st, s, r, role, language) ==
    Msg("user-joined", InRoom(io, st, r) \ {s}, r, role,
        IF role = "listener" THEN language ELSE "-", "-", <<>>, <<>>)

UserLeftMsg(io, st, s, r, role) ==
    Msg("user-left", InRoom(io, st, r) \ {s}, r, role, "-", "-", <<>>, <<>>)

RoomMsg(ev, io, st, r) ==
    Msg(ev, InRoom(io, st, r), r, "-", "-", "-", <<>>, <<>>)

\* A line written with console.warn: it reaches no connection.
WarnMsg(message) ==
    Msg("console.warn", {}, "-", "-", "-", message, <<>>, <<>>)

ListenerRecord(r, language) ==
    Msg("db:addListener", {}, r, "-", language, "-", <<>>, <<>>)

\* The output of a handler of the given group, as `out` records it.
Observe(group, msgs) == IF group \in watch THEN msgs ELSE {}

\* -------------------------------------------------------------------- Init
\* The service right after construction, its maps empty, with the client
\* connections made: io.on('connection') only registers the handlers below.
Init ==
    /\ status = [s \in Sockets |-> "connected"]
    /\ connectedUsers = [s \in Sockets |-> NoUser]
    /\ roomListeners = << >>
    /\ activeTranscriptions = << >>
    /\ ioRooms = [s \in Sockets |-> {}]
    /\ joining = [s \in Sockets |-> Idle]
    /\ texts = << >>
    /\ out = {}
    /\ sessionContexts = << >>
    /\ transcripts = << >>
    /\ audio = << >>
    /\ answered = << >>
    /\ watch = {"rooms", "text"}
    /\ joinSeq = [r \in Rooms |-> << >>]

\* ---------------------------------------------------------------- join-room
\* Role by join order: preacher iff the room's membership set is empty.
RoleForAlwaysPreacher(existingListeners) == "preacher"

RoleForFirstTwo(existingListeners) ==
    IF Cardinality(existingListeners) <= 1 THEN "preacher" ELSE "listener"

\* Role recomputed from who is there: preacher iff no member is a preacher.
RoleForNoPreacherPresent(existingListeners) ==
    IF \A x \in existingListeners :
           connectedUsers[x] = NoUser \/ connectedUsers[x].role # "preacher"
    THEN "preacher" ELSE "listener"

RoleFor(existingListeners) ==
    IF Cardinality(existingListeners) = 0 THEN "preacher" ELSE "listener"

JoinHandler(s, r, language) ==
    [kind |-> "join", pc |-> "getRoomByCode", socket |-> s, roomCode |-> r,
     language |-> language, role |-> "-"]

\* socket.on('join-room'): handleJoinRoom up to `await getRoomByCode`.
JoinReceive(s, r, language) ==
    /\ status[s] = "connected"
    /\ joining[s] = Idle
    /\ joining' = [joining EXCEPT ![s] = JoinHandler(s, r, language)]
    /\ out' = {}
    /\ UNCHANGED <<answered, audio, sessionContexts, transcripts, watch, status, connectedUsers,
                   roomListeners,
                   activeTranscriptions, ioRooms, texts, joinSeq>>

\* getRoomByCode threw: the catch of the event callback reports it.
JoinLookupThrows(s) ==
    /\ joining[s] # Idle /\ joining[s].pc = "getRoomByCode"
    /\ joining' = [joining EXCEPT ![s] = Idle]
    /\ out' = Observe("rooms", {ErrorMsg(status, s, "Failed to join room")})
    /\ UNCHANGED <<answered, audio, sessionContexts, transcripts, watch, status, connectedUsers,
                   roomListeners,
                   activeTranscriptions, ioRooms, texts, joinSeq>>

\* getRoomByCode returned null: the room code does not resolve.
JoinRoomNotFound(s) ==
    /\ joining[s] # Idle /\ joining[s].pc = "getRoomByCode"
    /\ joining' = [joining EXCEPT ![s] = Idle]
    /\ out' = Observe("rooms", {RoomJoinedMsg(status, s, FALSE)})
    /\ UNCHANGED <<answered, audio, sessionContexts, transcripts, watch, status, connectedUsers,
                   roomListeners,
                   activeTranscriptions, ioRooms, texts, joinSeq>>

\* Tail of handleJoinRoom: the two emits after the listener was persisted
\* (or was not: the failure is only logged).
JoinEmits(io, st, s, r, role, language) ==
    {RoomJoinedMsg(st, s, TRUE), UserJoinedMsg(io, st, s, r, role, language)}

\* The join order of room r after connection s registered in room `into`.
JoinSeqAfterJoin(r, s, into) ==
    IF r = into
    THEN IF joinSeq[r] = Dirty \/ s \in MapGet(roomListeners, r, {})
         THEN Dirty ELSE Append(joinSeq[r], s)
    ELSE IF connectedUsers[s].roomCode = r THEN Dirty ELSE joinSeq[r]

\* getRoomByCode returned the room: the role is derived and the connection
\* registered in one uninterrupted run; a listener then suspends on addListener.
JoinRegister(s) ==
    /\ joining[s] # Idle /\ joining[s].pc = "getRoomByCode"
    /\ LET h == joining[s]
           r == h.roomCode
           existingListeners == MapGet(roomListeners, r, {})
           role == RoleFor(existingListeners)
           io == [ioRooms EXCEPT ![s] = @ \cup {r}]
       IN /\ connectedUsers' = [connectedUsers EXCEPT ![s] =
                 [socketId |-> s, roomCode |-> r, role |-> role,
                  language |-> h.language]]
          /\ roomListeners' = MapSet(roomListeners, r, existingListeners \cup {s})
          /\ ioRooms' = io
          /\ joinSeq' = IF "rooms" \in watch
                        THEN [x \in Rooms |-> JoinSeqAfterJoin(x, s, r)]
                        ELSE joinSeq
          /\ IF role = "listener"
             THEN /\ joining' = [joining EXCEPT ![s] =
                        [h EXCEPT !.pc = "addListener", !.role = role]]
                  /\ out' = {}
             ELSE /\ joining' = [joining EXCEPT ![s] = Idle]
                  /\ out' = Observe("rooms",
                         JoinEmits(io, status, s, r, role, h.language))
    /\ UNCHANGED <<answered, audio, sessionContexts, transcripts, watch, status, activeTranscriptions, texts>>

\* A join that gave up when the listener could not be persisted.
JoinAddListenerReturnFatal(s, ok) ==
    /\ joining[s] # Idle /\ joining[s].pc = "addListener"
    /\ LET h == joining[s]
       IN out' = Observe("rooms",
              IF ok
              THEN JoinEmits(ioRooms, status, s, h.roomCode, h.role,
                             h.language)
                   \cup {ListenerRecord(h.roomCode, h.language)}
              ELSE {ErrorMsg(status, s, "Failed to join room")})
    /\ joining' = [joining EXCEPT ![s] = Idle]
    /\ UNCHANGED <<answered, audio, sessionContexts, transcripts, watch,
                   status, connectedUsers, roomListeners,
                   activeTranscriptions, ioRooms, texts, joinSeq>>

\* addListener answered; a failure is logged and the join still succeeds.
JoinAddListenerReturn(s, ok) ==
    /\ joining[s] # Idle /\ joining[s].pc = "addListener"
    /\ LET h == joining[s]
       IN out' = Observe("rooms",
              JoinEmits(ioRooms, status, s, h.roomCode, h.role, h.language)
              \cup (IF ok THEN {ListenerRecord(h.roomCode, h.language)}
                    ELSE {}))
    /\ joining' = [joining EXCEPT ![s] = Idle]
    /\ UNCHANGED <<answered, audio, sessionContexts, transcripts, watch, status, connectedUsers,
                   roomListeners,
                   activeTranscriptions, ioRooms, texts, joinSeq>>

\* --------------------------------------------------- leave-room, disconnect
\* A suspended transcript-text handler holds a reference to the Set object it
\* read from roomListeners.  Deleting the room's entry leaves that object
\* empty for good; a later join makes a new Set the handler does not see.
DropSetReference(h, r) ==
    IF h.roomCode = r THEN [h EXCEPT !.alive = FALSE] ELSE h

\* A leave that deleted the emptied Set but left the room's flag in place.
LeaveRoomBodyKeepsFlag(s, r, io, st) ==
    LET user == connectedUsers[s]
        listeners == MapGet(roomListeners, r, {}) \ {s}
        emptied == r \in DOMAIN roomListeners /\ listeners = {}
        io2 == [io EXCEPT ![s] = @ \ {r}]
    IN /\ roomListeners' =
              IF r \notin DOMAIN roomListeners THEN roomListeners
              ELSE IF emptied THEN MapDelete(roomListeners, r)
              ELSE MapSet(roomListeners, r, listeners)
       /\ activeTranscriptions' = activeTranscriptions
       /\ texts' =
              IF emptied
              THEN [k \in 1..Len(texts) |-> DropSetReference(texts[k], r)]
              ELSE texts
       /\ joinSeq' = IF "rooms" \in watch
                     THEN [joinSeq EXCEPT
                              ![r] = IF emptied THEN << >> ELSE Dirty]
                     ELSE joinSeq
       /\ connectedUsers' = [connectedUsers EXCEPT ![s] = NoUser]
       /\ ioRooms' = io2
       /\ out' = Observe("rooms", {UserLeftMsg(io2, st, s, r, user.role)})

\* A leave that also deleted the room's flag when the preacher left.
LeaveRoomBodyPreacherEndsActivity(s, r, io, st) ==
    LET user == connectedUsers[s]
        listeners == MapGet(roomListeners, r, {}) \ {s}
        emptied == r \in DOMAIN roomListeners /\ listeners = {}
        io2 == [io EXCEPT ![s] = @ \ {r}]
    IN /\ roomListeners' =
              IF r \notin DOMAIN roomListeners THEN roomListeners
              ELSE IF emptied THEN MapDelete(roomListeners, r)
              ELSE MapSet(roomListeners, r, listeners)
       /\ activeTranscriptions' =
              IF emptied \/ user.role = "preacher"
              THEN MapDelete(activeTranscriptions, r)
              ELSE activeTranscriptions
       /\ texts' =
              IF emptied
              THEN [k \in 1..Len(texts) |-> DropSetReference(texts[k], r)]
              ELSE texts
       /\ joinSeq' = IF "rooms" \in watch
                     THEN [joinSeq EXCEPT
                              ![r] = IF emptied THEN << >> ELSE Dirty]
                     ELSE joinSeq
       /\ connectedUsers' = [connectedUsers EXCEPT ![s] = NoUser]
       /\ ioRooms' = io2
       /\ out' = Observe("rooms", {UserLeftMsg(io2, st, s, r, user.role)})

\* Body of handleLeaveRoom past its guard, for user = connectedUsers[s];
\* io is the socket.io room state the call starts from.
LeaveRoomBody(s, r, io, st) ==
    LET user == connectedUsers[s]
        listeners == MapGet(roomListeners, r, {}) \ {s}
        emptied == r \in DOMAIN roomListeners /\ listeners = {}
        io2 == [io EXCEPT ![s] = @ \ {r}]
    IN /\ roomListeners' =
              IF r \notin DOMAIN roomListeners THEN roomListeners
              ELSE IF emptied THEN MapDelete(roomListeners, r)
              ELSE MapSet(roomListeners, r, listeners)
       /\ activeTranscriptions' =
              IF emptied THEN MapDelete(activeTranscriptions, r)
              ELSE activeTranscriptions
       /\ texts' =
              IF emptied
              THEN [k \in 1..Len(texts) |-> DropSetReference(texts[k], r)]
              ELSE texts
       /\ joinSeq' = IF "rooms" \in watch
                     THEN [joinSeq EXCEPT
                              ![r] = IF emptied THEN << >> ELSE Dirty]
                     ELSE joinSeq
       /\ connectedUsers' = [connectedUsers EXCEPT ![s] = NoUser]
       /\ ioRooms' = io2
       /\ out' = Observe("rooms", {UserLeftMsg(io2, st, s, r, user.role)})

\* A leave-room that did not compare the room it names with the record.
LeaveRoomAnyRoom(s, r) ==
    /\ status[s] = "connected"
    /\ IF connectedUsers[s] = NoUser
       THEN /\ out' = {}
            /\ UNCHANGED <<connectedUsers, roomListeners,
                           activeTranscriptions, ioRooms, texts, joinSeq>>
       ELSE LeaveRoomBody(s, r, ioRooms, status)
    /\ UNCHANGED <<answered, audio, sessionContexts, transcripts, watch,
                   status, joining>>

\* socket.on('leave-room'): handleLeaveRoom has no await and runs whole.
LeaveRoom(s, r) ==
    /\ status[s] = "connected"
    /\ IF connectedUsers[s] = NoUser \/ connectedUsers[s].roomCode # r
       THEN /\ out' = {}
            /\ UNCHANGED <<connectedUsers, roomListeners,
                           activeTranscriptions, ioRooms, texts, joinSeq>>
       ELSE LeaveRoomBody(s, r, ioRooms, status)
    /\ UNCHANGED <<answered, audio, sessionContexts, transcripts, watch, status, joining>>

\* socket.on('disconnect'): socket.io has already taken the socket out of all
\* its rooms; handleDisconnect leaves the connection's recorded room.
Disconnect(s) ==
    /\ status[s] = "connected"
    /\ status' = [status EXCEPT ![s] = "disconnected"]
    /\ LET io == [ioRooms EXCEPT ![s] = {}]
       IN IF connectedUsers[s] = NoUser
          THEN /\ ioRooms' = io
               /\ out' = {}
               /\ UNCHANGED <<connectedUsers, roomListeners,
                              activeTranscriptions, texts, joinSeq>>
          ELSE LeaveRoomBody(s, connectedUsers[s].roomCode, io, status')
    /\ UNCHANGED <<answered, audio, sessionContexts, transcripts, watch, joining>>

\* ------------------------------------------- start / stop transcription
\* The authorization test shared by the three preacher-only handlers.
IsPreacherOfAnyRoom(s, r) ==
    connectedUsers[s] # NoUser /\ connectedUsers[s].role = "preacher"

IsPreacherOf(s, r) ==
    /\ connectedUsers[s] # NoUser
    /\ connectedUsers[s].role = "preacher"
    /\ connectedUsers[s].roomCode = r

\* handleStartTranscription / handleStopTranscription: no await, run whole.
SetTranscription(s, r, active, ev, what) ==
    /\ status[s] = "connected"
    /\ IF ~IsPreacherOf(s, r)
       THEN /\ out' = Observe("rooms", {ErrorMsg(status, s, what)})
            /\ UNCHANGED activeTranscriptions
       ELSE /\ activeTranscriptions' = MapSet(activeTranscriptions, r, active)
            /\ out' = Observe("rooms", {RoomMsg(ev, ioRooms, status, r)})
    /\ UNCHANGED <<answered, audio, sessionContexts, transcripts, watch, status, connectedUsers,
                   roomListeners, ioRooms,
                   joining, texts, joinSeq>>

StartTranscription(s, r) ==
    SetTranscription(s, r, TRUE, "transcription-started",
                     "Unauthorized to start transcription")

StopTranscriptionKeepsFlag(s, r) ==
    SetTranscription(s, r, TRUE, "transcription-stopped",
                     "Unauthorized to stop transcription")

\* A stop that also gave up the texts of the room still in flight.
StopTranscriptionCancelsTexts(s, r) ==
    /\ status[s] = "connected"
    /\ IF ~IsPreacherOf(s, r)
       THEN /\ out' = Observe("rooms",
                   {ErrorMsg(status, s, "Unauthorized to stop transcription")})
            /\ UNCHANGED <<activeTranscriptions, texts>>
       ELSE /\ activeTranscriptions' = MapSet(activeTranscriptions, r, FALSE)
            /\ texts' = SelectSeq(texts, LAMBDA h : h.roomCode # r)
            /\ out' = Observe("rooms",
                   {RoomMsg("transcription-stopped", ioRooms, status, r)})
    /\ UNCHANGED <<answered, audio, sessionContexts, transcripts, watch, status, connectedUsers,
                   roomListeners, ioRooms, joining, joinSeq>>

StopTranscription(s, r) ==
    SetTranscription(s, r, FALSE, "transcription-stopped",
                     "Unauthorized to stop transcription")

\* A room-ended that also stopped the room's transcription.
RoomEndedClearsFlag(s, r) ==
    /\ status[s] = "connected"
    /\ out' = Observe("rooms", {RoomMsg("room-ended", ioRooms, status, r)})
    /\ activeTranscriptions' = MapDelete(activeTranscriptions, r)
    /\ UNCHANGED <<answered, audio, sessionContexts, transcripts, watch,
                   status, connectedUsers, roomListeners, ioRooms, joining,
                   texts, joinSeq>>

\* socket.on('room-ended'): relayed to the socket.io room, no map touched.
RoomEnded(s, r) ==
    /\ status[s] = "connected"
    /\ out' = Observe("rooms", {RoomMsg("room-ended", ioRooms, status, r)})
    /\ UNCHANGED <<answered, audio, sessionContexts, transcripts, watch, status, connectedUsers,
                   roomListeners,
                   activeTranscriptions, ioRooms, joining, texts, joinSeq>>

\* ---------------------------------------------------------- transcript-text
\* String.prototype.trim on a sequence of characters.
RECURSIVE TrimStart(_)
TrimStart(text) ==
    IF text # << >> /\ Head(text) = " " THEN TrimStart(Tail(text)) ELSE text

RECURSIVE TrimEnd(_)
TrimEnd(text) ==
    IF text # << >> /\ text[Len(text)] = " "
    THEN TrimEnd(SubSeq(text, 1, Len(text) - 1)) ELSE text

Trim(text) == TrimEnd(TrimStart(text))

\* !text || text.trim().length === 0
IsBlank(text) == Len(Trim(text)) = 0

\* What translateText answers for a language other than the source language:
\* some text of the target language, here the text tagged with the language.
Translate(text, language) == <<language>> \o text

\* activeTranscriptions.get(roomCode), read as a condition.
IsActiveAlways(r) == TRUE

IsActive(r) == MapGet(activeTranscriptions, r, FALSE)

\* The languages handleTranscriptText collects besides 'en': the language of
\* every member of the room's Set whose record has role listener.
ListenerLanguages(listeners) ==
    {connectedUsers[x].language :
        x \in {y \in listeners : /\ connectedUsers[y] # NoUser
                                 /\ connectedUsers[y].role = "listener"}}

\* The Set of target languages handleTranscriptText builds for room r.
TargetLanguages(r) ==
    {SourceLanguage} \cup ListenerLanguages(MapGet(roomListeners, r, {}))

\* The orders in which a Set holding the elements of S can be iterated.
Orderings(S) == {q \in [1..Cardinality(S) -> S] : Range(q) = S}

\* A suspended handleTranscriptText.  targetLanguages is Array.from of the
\* collected Set ('en' first); translations[k] is the text for
\* targetLanguages[k], filled in order; k is the entry being saved; alive
\* tells whether the Set read from roomListeners is still the room's Set.
TextHandler(s, r, text, targetLanguages, pc) ==
    [kind |-> "text", pc |-> pc, socket |-> s, roomCode |-> r, text |-> text,
     targetLanguages |-> targetLanguages, translations |-> <<text>>, k |-> 1,
     alive |-> r \in DOMAIN roomListeners]

\* socket.on('transcript-text'): handleTranscriptText up to its first
\* suspension.  processTranscriptText copies the text for 'en' and suspends on
\* translateText for the first other language; with 'en' alone the handler
\* runs on to `await getRoomByCode`.
TextReceive(s, r, text) ==
    /\ status[s] = "connected"
    /\ IF ~IsPreacherOf(s, r)
       THEN /\ out' = Observe("text",
                   {ErrorMsg(status, s, "Unauthorized to send transcript")})
            /\ UNCHANGED texts
       ELSE IF ~IsActive(r)
       THEN /\ out' = {}
            /\ UNCHANGED texts
       ELSE IF IsBlank(text)
       THEN /\ out' = Observe("text", {WarnMsg("Empty text received")})
            /\ UNCHANGED texts
       ELSE /\ Len(texts) < MaxTexts
            /\ \E order \in Orderings(TargetLanguages(r) \ {SourceLanguage}) :
                  texts' = Append(texts,
                      TextHandler(s, r, text, <<SourceLanguage>> \o order,
                          IF order = << >> THEN "getRoomByCode"
                          ELSE "translateText"))
            /\ out' = {}
    /\ UNCHANGED <<answered, audio, sessionContexts, transcripts, watch, status, connectedUsers,
                   roomListeners,
                   activeTranscriptions, ioRooms, joining, joinSeq>>

\* The entry processTranscriptText stores for a language other than 'en':
\* what translateText answered, or the text itself when translateText threw.
TranslationForNothingOnFailure(text, language, ok) ==
    IF ok THEN Translate(text, language) ELSE << >>

TranslationFor(text, language, ok) ==
    IF ok THEN Translate(text, language) ELSE text

\* translateText answered for the next target language, or threw; the loop
\* goes on to the next language either way.
TextTranslateReturn(i, ok) ==
    /\ i \in 1..Len(texts)
    /\ texts[i].pc = "translateText"
    /\ LET h == texts[i]
           language == h.targetLanguages[Len(h.translations) + 1]
           translations == Append(h.translations,
               TranslationFor(h.text, language, ok))
       IN texts' = ReplaceAt(texts, i,
              [h EXCEPT !.translations = translations,
                        !.pc = IF Len(translations) < Len(h.targetLanguages)
                               THEN "translateText" ELSE "getRoomByCode"])
    /\ out' = {}
    /\ UNCHANGED <<answered, audio, sessionContexts, transcripts, watch, status, connectedUsers,
                   roomListeners,
                   activeTranscriptions, ioRooms, joining, joinSeq>>

\* getRoomByCode threw: the handler's own catch reports it to the sender.
TextLookupThrows(i) ==
    /\ i \in 1..Len(texts)
    /\ texts[i].pc = "getRoomByCode"
    /\ texts' = RemoveAt(texts, i)
    /\ out' = Observe("text", {ErrorMsg(status, texts[i].socket,
                        "Failed to process transcript")})
    /\ UNCHANGED <<answered, audio, sessionContexts, transcripts, watch, status, connectedUsers,
                   roomListeners,
                   activeTranscriptions, ioRooms, joining, joinSeq>>

\* A null room that was reported and the save loop entered all the same.
TextRoomNotFoundStillSaves(i) ==
    /\ i \in 1..Len(texts)
    /\ texts[i].pc = "getRoomByCode"
    /\ texts' = ReplaceAt(texts, i,
           [texts[i] EXCEPT !.pc = "saveTranscript", !.k = 1])
    /\ out' = Observe("text",
           {ErrorMsg(status, texts[i].socket, "Room not found")})
    /\ UNCHANGED <<answered, audio, sessionContexts, transcripts, watch, status, connectedUsers,
                   roomListeners,
                   activeTranscriptions, ioRooms, joining, joinSeq>>

\* getRoomByCode returned null: the room no longer resolves.
TextRoomNotFound(i) ==
    /\ i \in 1..Len(texts)
    /\ texts[i].pc = "getRoomByCode"
    /\ texts' = RemoveAt(texts, i)
    /\ out' = Observe("text",
           {ErrorMsg(status, texts[i].socket, "Room not found")})
    /\ UNCHANGED <<answered, audio, sessionContexts, transcripts, watch, status, connectedUsers,
                   roomListeners,
                   activeTranscriptions, ioRooms, joining, joinSeq>>

\* getRoomByCode returned the room: saveTranscript is called for the first
\* entry of result.translations.
TextRoomFound(i) ==
    /\ i \in 1..Len(texts)
    /\ texts[i].pc = "getRoomByCode"
    /\ texts' = ReplaceAt(texts, i,
           [texts[i] EXCEPT !.pc = "saveTranscript", !.k = 1])
    /\ out' = {}
    /\ UNCHANGED <<answered, audio, sessionContexts, transcripts, watch, status, connectedUsers,
                   roomListeners,
                   activeTranscriptions, ioRooms, joining, joinSeq>>

\* The members of the Set the handler iterates when it broadcasts.
CapturedListeners(h) ==
    IF h.alive THEN MapGet(roomListeners, h.roomCode, {}) ELSE {}

\* The broadcast test of handleTranscriptText for one member of the Set.
WantsLanguage(x, language) ==
    /\ connectedUsers[x] # NoUser
    /\ \/ connectedUsers[x].role = "preacher"
       \/ /\ connectedUsers[x].role = "listener"
          /\ connectedUsers[x].language = language

Recipients(h, language) ==
    {x \in CapturedListeners(h) : WantsLanguage(x, language)}
        \cap Connected(status)

\* A record that carried the entry of result.translations for English too.
TranscriptRecordAlwaysTranslated(ev, to, h) ==
    Msg(ev, to, h.roomCode, "-", h.targetLanguages[h.k], "-", h.text,
        h.translations[h.k])

\* The Transcript Record saveTranscript is given for entry k.
TranscriptRecord(ev, to, h) ==
    Msg(ev, to, h.roomCode, "-", h.targetLanguages[h.k], "-", h.text,
        IF h.targetLanguages[h.k] = "en" THEN Null ELSE h.translations[h.k])

\* A failed save that ended the whole handler with an error to the sender.
TextSaveReturnFatal(i, ok) ==
    /\ i \in 1..Len(texts)
    /\ texts[i].pc = "saveTranscript"
    /\ LET h == texts[i]
           language == h.targetLanguages[h.k]
       IN /\ out' = IF ok
                    THEN Observe("text",
                             {TranscriptRecord("db:saveTranscript", {}, h),
                              TranscriptRecord("new-transcript",
                                               Recipients(h, language), h)})
                    ELSE Observe("text", {ErrorMsg(status, h.socket,
                                     "Failed to process transcript")})
          /\ texts' = IF ok /\ h.k < Len(h.targetLanguages)
                         THEN ReplaceAt(texts, i,
                                  [h EXCEPT !.k = @ + 1])
                         ELSE RemoveAt(texts, i)
          /\ transcripts' = IF ok /\ "db" \in watch
                            THEN Append(transcripts,
                                     TranscriptRecord("db:saveTranscript",
                                                      {}, h))
                            ELSE transcripts
    /\ UNCHANGED <<answered, audio, sessionContexts, watch, status,
                   connectedUsers, roomListeners,
                   activeTranscriptions, ioRooms, joining, joinSeq>>

\* saveTranscript answered for entry k: the stored record is pushed to the
\* members that want its language; a failure is logged and the loop goes on.
TextSaveReturn(i, ok) ==
    /\ i \in 1..Len(texts)
    /\ texts[i].pc = "saveTranscript"
    /\ LET h == texts[i]
           language == h.targetLanguages[h.k]
       IN /\ out' = IF ok
                    THEN Observe("text",
                             {TranscriptRecord("db:saveTranscript", {}, h),
                              TranscriptRecord("new-transcript",
                                               Recipients(h, language), h)})
                    ELSE {}
          /\ texts' = IF h.k < Len(h.targetLanguages)
                         THEN ReplaceAt(texts, i,
                                  [h EXCEPT !.k = @ + 1])
                         ELSE RemoveAt(texts, i)
          /\ transcripts' = IF ok /\ "db" \in watch
                            THEN Append(transcripts,
                                     TranscriptRecord("db:saveTranscript",
                                                      {}, h))
                            ELSE transcripts
    /\ UNCHANGED <<answered, audio, sessionContexts, watch, status, connectedUsers,
                   roomListeners,
                   activeTranscriptions, ioRooms, joining, joinSeq>>

\* ------------------------------------------------- transcription sessions
\* OpenAIService keeps the sessions; its methods are called with a session
\* id, here a room code.  lastProcessedTime is left out: nothing reads it.
NewSession == [fullTranscript |-> << >>, audioChunks |-> << >>]

\* A suspended processAudioChunk holds the session object it read from
\* sessionContexts.  Once startTranscriptionSession or endTranscriptionSession
\* has replaced or deleted the entry, that object belongs to the call alone:
\* the call then carries it in `session`.
DetachSession(h, sessionId) ==
    IF h.alive /\ h.sessionId = sessionId
    THEN [h EXCEPT !.alive = FALSE, !.session = sessionContexts[sessionId]]
    ELSE h

\* A start that kept the session the key already had.
StartTranscriptionSessionIfAbsent(sessionId) ==
    /\ sessionContexts' =
           IF sessionId \in DOMAIN sessionContexts THEN sessionContexts
           ELSE MapSet(sessionContexts, sessionId, NewSession)
    /\ out' = {}
    /\ UNCHANGED <<audio, answered, transcripts, watch, status, connectedUsers,
                   roomListeners, activeTranscriptions, ioRooms, joining,
                   texts, joinSeq>>

\* startTranscriptionSession: creates the session, or resets an existing one.
StartTranscriptionSession(sessionId) ==
    /\ sessionContexts' = MapSet(sessionContexts, sessionId, NewSession)
    /\ audio' = [k \in 1..Len(audio) |-> DetachSession(audio[k], sessionId)]
    /\ answered' = MapDelete(answered, sessionId)
    /\ out' = {}
    /\ UNCHANGED <<transcripts, watch, status, connectedUsers, roomListeners,
                   activeTranscriptions, ioRooms, joining, texts, joinSeq>>

\* endTranscriptionSession: deletes the session if there is one.
EndTranscriptionSession(sessionId) ==
    /\ sessionContexts' = MapDelete(sessionContexts, sessionId)
    /\ audio' = [k \in 1..Len(audio) |-> DetachSession(audio[k], sessionId)]
    /\ answered' = MapDelete(answered, sessionId)
    /\ out' = {}
    /\ UNCHANGED <<transcripts, watch, status, connectedUsers, roomListeners,
                   activeTranscriptions, ioRooms, joining, texts, joinSeq>>

\* -------------------------------------------------------- processAudioChunk
\* session.audioChunks.slice(-10) is taken when more than 10 are buffered.
AudioChunkLimit == 10

\* q.slice(-n)
SliceLast(q, n) == IF Len(q) <= n THEN q ELSE SubSeq(q, Len(q) - n + 1, Len(q))

\* The positions at which pattern occurs in text.
Occurrences(text, pattern) ==
    {i \in 1..(Len(text) - Len(pattern) + 1) :
        SubSeq(text, i, i + Len(pattern) - 1) = pattern}

\* text.replace(pattern, '') for a string pattern: the first occurrence goes,
\* and the empty pattern matches where the text begins.
RemoveFirst(text, pattern) ==
    IF pattern = << >> \/ Occurrences(text, pattern) = {} THEN text
    ELSE LET i == CHOOSE j \in Occurrences(text, pattern) :
                      \A k \in Occurrences(text, pattern) : j <= k
         IN SubSeq(text, 1, i - 1) \o SubSeq(text, i + Len(pattern), Len(text))

\* const newText = fullText.replace(session.fullTranscript, '').trim()
NewTextKeepsStored(fullText, fullTranscript) == Trim(fullText)

NewTextUntrimmed(fullText, fullTranscript) ==
    RemoveFirst(fullText, fullTranscript)

NewText(fullText, fullTranscript) == Trim(RemoveFirst(fullText, fullTranscript))

\* What the call answers its caller: a result, or the error it throws.
AudioResult(sessionId, originalText, translations) ==
    Msg("processAudioChunk:return", {}, sessionId, "-", "-", "-",
        originalText, translations)

AudioError(sessionId, message) ==
    Msg("processAudioChunk:throw", {}, sessionId, "-", "-", message,
        <<>>, <<>>)

\* { originalText: '', translations: {}, isComplete: false }
EmptyResult(sessionId) == AudioResult(sessionId, << >>, << >>)

\* A suspended processAudioChunk.  combinedAudio is the buffer the call sent
\* to be transcribed (the session's chunks when it was called); translations
\* holds the entries written so far, in the order of targetLanguages.
AudioHandler(sessionId, targetLanguages, combinedAudio) ==
    [kind |-> "audio", pc |-> "transcribe", sessionId |-> sessionId,
     combinedAudio |-> combinedAudio,
     targetLanguages |-> targetLanguages, newText |-> << >>,
     translations |-> << >>, alive |-> TRUE, session |-> NewSession]

\* The session object a call works on, and the state after the call wrote it.
SessionOf(h) == IF h.alive THEN sessionContexts[h.sessionId] ELSE h.session

SessionsAfterWrite(h, session) ==
    IF h.alive THEN MapSet(sessionContexts, h.sessionId, session)
    ELSE sessionContexts

HandlerAfterWrite(h, session) ==
    IF h.alive THEN h ELSE [h EXCEPT !.session = session]

\* processAudioChunk up to `await this.openai.audio.transcriptions.create`:
\* without a session it throws at once (the catch logs and rethrows), with
\* one it pushes the chunk and suspends.
ProcessAudioChunk(sessionId, audioBuffer, targetLanguages) ==
    /\ IF sessionId \notin DOMAIN sessionContexts
       THEN /\ out' = {AudioError(sessionId, "Transcription session not found")}
            /\ UNCHANGED <<sessionContexts, audio>>
       ELSE /\ sessionContexts' = [sessionContexts EXCEPT
                   ![sessionId].audioChunks = Append(@, audioBuffer)]
            /\ audio' = Append(audio,
                   AudioHandler(sessionId, targetLanguages,
                       Append(sessionContexts[sessionId].audioChunks,
                              audioBuffer)))
            /\ out' = {}
    /\ UNCHANGED <<answered, transcripts, watch, status, connectedUsers,
                   roomListeners, activeTranscriptions, ioRooms, joining,
                   texts, joinSeq>>

\* A failure that also gave up the session.
AudioTranscribeThrowsEndsSession(i) ==
    /\ i \in 1..Len(audio)
    /\ audio[i].pc = "transcribe"
    /\ audio' = RemoveAt(audio, i)
    /\ sessionContexts' = MapDelete(sessionContexts, audio[i].sessionId)
    /\ out' = {AudioError(audio[i].sessionId, "transcription failed")}
    /\ UNCHANGED <<answered, transcripts, watch, status,
                   connectedUsers, roomListeners, activeTranscriptions,
                   ioRooms, joining, texts, joinSeq>>

\* The transcription call threw: the catch logs the error and rethrows it.
AudioTranscribeThrows(i) ==
    /\ i \in 1..Len(audio)
    /\ audio[i].pc = "transcribe"
    /\ audio' = RemoveAt(audio, i)
    /\ out' = {AudioError(audio[i].sessionId, "transcription failed")}
    /\ UNCHANGED <<answered, sessionContexts, transcripts, watch, status,
                   connectedUsers, roomListeners, activeTranscriptions,
                   ioRooms, joining, texts, joinSeq>>

\* The languages of targetLanguages from position k on that need translateText.
NextForeign(targetLanguages, k) ==
    {j \in k..Len(targetLanguages) : targetLanguages[j] # "en"}

\* The loop over targetLanguages from position k: 'en' entries are copied
\* without suspending; the loop stops at the first other language.
EnglishUpTo(h, k, newText) ==
    LET stop == IF NextForeign(h.targetLanguages, k) = {}
                THEN Len(h.targetLanguages) + 1
                ELSE CHOOSE j \in NextForeign(h.targetLanguages, k) :
                         \A x \in NextForeign(h.targetLanguages, k) : j <= x
    IN h.translations \o [x \in 1..(stop - k) |-> newText]

\* translations as the Record the caller gets: language -> text, a later
\* entry for the same language replacing an earlier one.
AsRecord(targetLanguages, translations) ==
    [language \in Range(targetLanguages) |->
        translations[CHOOSE j \in 1..Len(targetLanguages) :
            /\ targetLanguages[j] = language
            /\ \A x \in 1..Len(targetLanguages) :
                  targetLanguages[x] = language => x <= j]]

\* The end of processAudioChunk once every language has its entry: the buffer
\* is cut to its last 10 chunks and the result returned.
AudioFinish(i, h, session, translations) ==
    LET cut == [session EXCEPT
                   !.audioChunks = SliceLast(@, AudioChunkLimit)]
    IN /\ sessionContexts' = SessionsAfterWrite(h, cut)
       /\ audio' = RemoveAt(audio, i)
       /\ out' = {AudioResult(h.sessionId, h.newText,
                      AsRecord(h.targetLanguages, translations))}

\* The loop from position k with the entries so far: it suspends on
\* translateText for the next other language, or the call finishes.
AudioTranslateFrom(i, h, session) ==
    LET translations == EnglishUpTo(h, Len(h.translations) + 1, h.newText)
        g == [h EXCEPT !.translations = translations]
    IN IF Len(translations) < Len(h.targetLanguages)
       THEN /\ sessionContexts' = SessionsAfterWrite(h, session)
            /\ audio' = ReplaceAt(audio, i,
                   HandlerAfterWrite([g EXCEPT !.pc = "translateText"],
                                     session))
            /\ out' = {}
       ELSE AudioFinish(i, g, session, translations)

\* The transcription call answered.  An empty transcript returns at once; else
\* the new part is taken out, the transcript stored, and an empty new part
\* returns; else the translation loop starts.
AudioTranscribed(i, transcription) ==
    /\ i \in 1..Len(audio)
    /\ audio[i].pc = "transcribe"
    /\ LET h == audio[i]
           session == SessionOf(h)
           fullText == Trim(transcription)
           newText == NewText(fullText, session.fullTranscript)
           stored == [session EXCEPT !.fullTranscript = fullText]
       IN IF fullText = << >>
          THEN /\ audio' = RemoveAt(audio, i)
               /\ out' = {EmptyResult(h.sessionId)}
               /\ UNCHANGED sessionContexts
          ELSE IF newText = << >>
          THEN /\ sessionContexts' = SessionsAfterWrite(h, stored)
               /\ audio' = RemoveAt(audio, i)
               /\ out' = {EmptyResult(h.sessionId)}
          ELSE AudioTranslateFrom(i, [h EXCEPT !.newText = newText], stored)
    /\ answered' = IF audio[i].alive
                   THEN MapSet(answered, audio[i].sessionId, transcription)
                   ELSE answered
    /\ UNCHANGED <<transcripts, watch, status, connectedUsers, roomListeners,
                   activeTranscriptions, ioRooms, joining, texts, joinSeq>>

\* translateText answered for the language the loop is at, or threw: the
\* entry is the translation, or the new text itself.
AudioTranslateReturn(i, ok) ==
    /\ i \in 1..Len(audio)
    /\ audio[i].pc = "translateText"
    /\ LET h == audio[i]
           language == h.targetLanguages[Len(h.translations) + 1]
           translations == Append(h.translations,
               TranslationFor(h.newText, language, ok))
       IN AudioTranslateFrom(i, [h EXCEPT !.translations = translations],
                             SessionOf(h))
    /\ UNCHANGED <<answered, transcripts, watch, status, connectedUsers,
                   roomListeners, activeTranscriptions, ioRooms, joining,
                   texts, joinSeq>>

\* ---------------------------------------------------------------- behaviour
\* The handlers that keep the rooms: join, leave, disconnect, start, stop and
\* the room-ended relay.
NextRooms ==
    \/ \E s \in Sockets : \E r \in RoomCodesOf(s) :
           JoinReceive(s, r, LanguageOf(s))
    \/ \E s \in Sockets : JoinLookupThrows(s)
    \/ \E s \in Sockets : JoinRoomNotFound(s)
    \/ \E s \in Sockets : JoinRegister(s)
    \/ \E s \in Sockets, ok \in BOOLEAN : JoinAddListenerReturn(s, ok)
    \/ \E s \in Sockets : \E r \in RoomCodesOf(s) : LeaveRoom(s, r)
    \/ \E s \in Sockets : Disconnect(s)
    \/ \E s \in Sockets : \E r \in RoomCodesOf(s) : StartTranscription(s, r)
    \/ \E s \in Sockets : \E r \in RoomCodesOf(s) : StopTranscription(s, r)
    \/ \E s \in Sockets : \E r \in RoomCodesOf(s) : RoomEnded(s, r)

\* The transcript-text handler and its continuations.
NextText ==
    \/ \E s \in Sockets : \E r \in RoomCodesOf(s), text \in TextInputs :
           TextReceive(s, r, text)
    \/ \E i \in 1..MaxTexts, ok \in BOOLEAN : TextTranslateReturn(i, ok)
    \/ \E i \in 1..MaxTexts : TextLookupThrows(i)
    \/ \E i \in 1..MaxTexts : TextRoomNotFound(i)
    \/ \E i \in 1..MaxTexts : TextRoomFound(i)
    \/ \E i \in 1..MaxTexts, ok \in BOOLEAN : TextSaveReturn(i, ok)

Next == NextRooms \/ NextText

\* Every handler, every output recorded.
Spec == Init /\ [][Next]_vars

\* The room handlers alone: transcript-text changes none of the maps, so the
\* rooms evolve the same with or without it.
SpecRooms == Init /\ [][NextRooms]_vars

\* Every handler, with `out` recording the output of transcript-text only.
InitText ==
    /\ status = [s \in Sockets |-> "connected"]
    /\ connectedUsers = [s \in Sockets |-> NoUser]
    /\ roomListeners = << >>
    /\ activeTranscriptions = << >>
    /\ ioRooms = [s \in Sockets |-> {}]
    /\ joining = [s \in Sockets |-> Idle]
    /\ texts = << >>
    /\ out = {}
    /\ sessionContexts = << >>
    /\ transcripts = << >>
    /\ audio = << >>
    /\ answered = << >>
    /\ watch = {"text"}
    /\ joinSeq = [r \in Rooms |-> << >>]

SpecText == InitText /\ [][Next]_vars

\* The room handlers together with the session methods of OpenAIService.
NextSessions ==
    \/ \E r \in Rooms : StartTranscriptionSession(r)
    \/ \E r \in Rooms : EndTranscriptionSession(r)

SpecSessions == Init /\ [][NextRooms \/ NextSessions]_vars

\* The fan-out of one accepted text on its own.  <<s1, R1>> is the preacher
\* that sent it, s2 a Spanish listener of the room; the handler is suspended
\* at its first await with the target languages it collected at receipt,
\* which may include the languages of listeners that have left since.
FanoutLanguages == {"es", "fr"}
FanoutTexts == {<<"a">>, <<" ", "a">>}

InitFanout ==
    /\ status = [s \in Sockets |-> "connected"]
    /\ connectedUsers =
           [s \in Sockets |->
               [socketId |-> s, roomCode |-> "R1",
                role |-> IF s = "s1" THEN "preacher" ELSE "listener",
                language |-> LanguageOf(s)]]
    /\ roomListeners = [r \in {"R1"} |-> Sockets]
    /\ activeTranscriptions = [r \in {"R1"} |-> TRUE]
    /\ ioRooms = [s \in Sockets |-> {"R1"}]
    /\ joining = [s \in Sockets |-> Idle]
    /\ \E text \in FanoutTexts :
       \E languages \in SUBSET FanoutLanguages :
       \E order \in Orderings(languages) :
           texts = <<TextHandler("s1", "R1", text, <<SourceLanguage>> \o order,
                        IF order = << >> THEN "getRoomByCode"
                        ELSE "translateText")>>
    /\ out = {}
    /\ sessionContexts = << >>
    /\ transcripts = << >>
    /\ audio = << >>
    /\ answered = << >>
    /\ watch = {"text"}
    /\ joinSeq = [r \in Rooms |-> << >>]

NextFanout ==
    \/ \E i \in 1..MaxTexts, ok \in BOOLEAN : TextTranslateReturn(i, ok)
    \/ \E i \in 1..MaxTexts : TextLookupThrows(i)
    \/ \E i \in 1..MaxTexts : TextRoomNotFound(i)
    \/ \E i \in 1..MaxTexts : TextRoomFound(i)
    \/ \E i \in 1..MaxTexts, ok \in BOOLEAN : TextSaveReturn(i, ok)

SpecFanout == InitFanout /\ [][NextFanout]_vars

\* Two accepted texts of one room in flight together.  The preacher <<s1, R1>>
\* sent EarlierText and then LaterText while R1 was active; each handler is
\* suspended at its first await with the target languages it collected at
\* receipt, and texts holds them in order of receipt.  The rows saveTranscript
\* inserts are kept in transcripts.
MaxPipelined == 2
EarlierText == <<"a">>
LaterText == <<"b">>
PipelineLanguages == {"es"}

PipelineHandlers(text) ==
    {TextHandler("s1", "R1", text, <<SourceLanguage>> \o order,
                 IF order = << >> THEN "getRoomByCode" ELSE "translateText") :
        order \in UNION {Orderings(languages) :
                            languages \in SUBSET PipelineLanguages}}

InitPipeline ==
    /\ status = [s \in Sockets |-> "connected"]
    /\ connectedUsers =
           [s \in Sockets |->
               [socketId |-> s, roomCode |-> "R1",
                role |-> IF s = "s1" THEN "preacher" ELSE "listener",
                language |-> LanguageOf(s)]]
    /\ roomListeners = [r \in {"R1"} |-> Sockets]
    /\ activeTranscriptions = [r \in {"R1"} |-> TRUE]
    /\ ioRooms = [s \in Sockets |-> {"R1"}]
    /\ joining = [s \in Sockets |-> Idle]
    /\ \E earlier \in PipelineHandlers(EarlierText) :
       \E later \in PipelineHandlers(LaterText) :
           texts = <<[earlier EXCEPT !.alive = TRUE],
                     [later EXCEPT !.alive = TRUE]>>
    /\ out = {}
    /\ sessionContexts = << >>
    /\ transcripts = << >>
    /\ audio = << >>
    /\ answered = << >>
    /\ watch = {"text", "db"}
    /\ joinSeq = [r \in Rooms |-> << >>]

NextPipeline ==
    \/ \E i \in 1..MaxPipelined, ok \in BOOLEAN : TextTranslateReturn(i, ok)
    \/ \E i \in 1..MaxPipelined : TextLookupThrows(i)
    \/ \E i \in 1..MaxPipelined : TextRoomNotFound(i)
    \/ \E i \in 1..MaxPipelined : TextRoomFound(i)
    \/ \E i \in 1..MaxPipelined, ok \in BOOLEAN : TextSaveReturn(i, ok)

SpecPipeline == InitPipeline /\ [][NextPipeline]_vars

\* The two texts in flight while connections may disconnect, with every
\* collaborator call returning in the end: the continuation of a suspended
\* handler runs once the promise it awaits settles, so a handler that stays
\* suspended is eventually resumed.  Disconnects are under no obligation.
TextContinues(i) ==
    \/ \E ok \in BOOLEAN : TextTranslateReturn(i, ok)
    \/ TextLookupThrows(i)
    \/ TextRoomNotFound(i)
    \/ TextRoomFound(i)
    \/ \E ok \in BOOLEAN : TextSaveReturn(i, ok)

NextLive ==
    \/ \E i \in 1..MaxPipelined : TextContinues(i)
    \/ \E s \in Sockets : Disconnect(s)

SpecLive ==
    /\ InitPipeline
    /\ [][NextLive]_vars
    /\ \A i \in 1..MaxPipelined : WF_vars(TextContinues(i))

\* processAudioChunk with the session methods, for one session key.  The
\* transcription service may answer any text; the caller asks for English
\* alone (the default) or for English and Spanish.
MaxTranscript == 3
MaxChunks == 2
MaxAudio == 1
AudioSessions == {"R1"}
AudioChunks == {"x", "y"}
AudioTargets == {<<"en">>, <<"en", "es">>}
Characters == {" ", "a", "b"}
Transcriptions == UNION {[1..n -> Characters] : n \in 0..MaxTranscript}

\* Room for one more suspended call and, in the buffer of the session, for one
\* more chunk, within the bounds; a call for a key without a session suspends
\* nowhere and buffers nothing.
CanBuffer(sessionId, cap) ==
    sessionId \in DOMAIN sessionContexts
    => /\ Len(sessionContexts[sessionId].audioChunks) < cap
       /\ Len(audio) < MaxAudio

NextAudio ==
    \/ \E sessionId \in AudioSessions : StartTranscriptionSession(sessionId)
    \/ \E sessionId \in AudioSessions : EndTranscriptionSession(sessionId)
    \/ \E sessionId \in AudioSessions, audioBuffer \in AudioChunks,
          targetLanguages \in AudioTargets :
           /\ CanBuffer(sessionId, MaxChunks)
           /\ ProcessAudioChunk(sessionId, audioBuffer, targetLanguages)
    \/ \E i \in 1..MaxAudio : AudioTranscribeThrows(i)
    \/ \E i \in 1..MaxAudio, transcription \in Transcriptions :
           AudioTranscribed(i, transcription)
    \/ \E i \in 1..MaxAudio, ok \in BOOLEAN : AudioTranslateReturn(i, ok)

SpecAudio == Init /\ [][NextAudio]_vars

\* Two calls of processAudioChunk for one session in flight together: the
\* earlier was called with one chunk, the later with another while the
\* earlier was suspended on the transcription call, so the later sent the
\* larger buffer.  The transcription service answers each call with the
\* transcript of the buffer that call sent: one word for each chunk.
OverlapTargets == {<<"en">>, <<"es">>, <<"en", "es">>}

WordOf(chunk) == IF chunk = "x" THEN "a" ELSE "b"

TranscriptOf(combinedAudio) ==
    IF Len(combinedAudio) = 1 THEN <<WordOf(combinedAudio[1])>>
    ELSE <<WordOf(combinedAudio[1]), " ", WordOf(combinedAudio[2])>>

InitOverlap ==
    /\ status = [s \in Sockets |-> "connected"]
    /\ connectedUsers = [s \in Sockets |-> NoUser]
    /\ roomListeners = << >>
    /\ activeTranscriptions = << >>
    /\ ioRooms = [s \in Sockets |-> {}]
    /\ joining = [s \in Sockets |-> Idle]
    /\ texts = << >>
    /\ out = {}
    /\ transcripts = << >>
    /\ \E first \in AudioChunks : \E second \in AudioChunks \ {first} :
       \E earlier \in OverlapTargets : \E later \in OverlapTargets :
           /\ sessionContexts =
                  [r \in {"R1"} |->
                      [NewSession EXCEPT !.audioChunks = <<first, second>>]]
           /\ audio = <<AudioHandler("R1", earlier, <<first>>),
                        AudioHandler("R1", later, <<first, second>>)>>
    /\ answered = << >>
    /\ watch = {}
    /\ joinSeq = [r \in Rooms |-> << >>]

NextOverlap ==
    \/ \E i \in 1..Len(audio) :
           AudioTranscribed(i, TranscriptOf(audio[i].combinedAudio))
    \/ \E i \in 1..Len(audio), ok \in BOOLEAN : AudioTranslateReturn(i, ok)

SpecOverlap == InitOverlap /\ [][NextOverlap]_vars

\* The same calls with room in the buffer for one chunk more than the limit
\* and fewer transcripts, so that the buffer fills.
MaxBuffered == 11
BufferTranscriptions == {<< >>, <<"a">>, <<"b">>}

NextBuffer ==
    \/ \E sessionId \in AudioSessions : StartTranscriptionSession(sessionId)
    \/ \E sessionId \in AudioSessions : EndTranscriptionSession(sessionId)
    \/ \E sessionId \in AudioSessions, audioBuffer \in AudioChunks,
          targetLanguages \in AudioTargets :
           /\ CanBuffer(sessionId, MaxBuffered)
           /\ ProcessAudioChunk(sessionId, audioBuffer, targetLanguages)
    \/ \E i \in 1..MaxAudio : AudioTranscribeThrows(i)
    \/ \E i \in 1..MaxAudio, transcription \in BufferTranscriptions :
           AudioTranscribed(i, transcription)
    \/ \E i \in 1..MaxAudio, ok \in BOOLEAN : AudioTranslateReturn(i, ok)

SpecBuffer == Init /\ [][NextBuffer]_vars

\* =============================================================== properties
\* What the Registry records about a connection.
RecordedIn(s, r) ==
    connectedUsers[s] # NoUser /\ connectedUsers[s].roomCode = r

RecordedPreacher(s, r) ==
    RecordedIn(s, r) /\ connectedUsers[s].role = "preacher"

RecordedListener(s, r) ==
    RecordedIn(s, r) /\ connectedUsers[s].role = "listener"

FlagTrue(r) ==
    r \in DOMAIN activeTranscriptions /\ activeTranscriptions[r]

\* C1: when distinct connections join a room whose membership set was empty,
\* the first to join is recorded as preacher and every later one as listener.
C1_FirstJoinerIsPreacher ==
    \A r \in Rooms :
        joinSeq[r] # Dirty =>
            \A i \in 1..Len(joinSeq[r]) :
                IF i = 1 THEN RecordedPreacher(joinSeq[r][i], r)
                ELSE RecordedListener(joinSeq[r][i], r)

C1_Witness ==
    /\ joinSeq["R1"] = <<"s2", "s1">>
    /\ joining = [s \in Sockets |-> Idle]

\* C2: in every reachable state at most one connection is recorded as the
\* preacher of a room, however the joins suspended on the lookup interleave.
C2_AtMostOnePreacher ==
    \A r \in Rooms :
        Cardinality({s \in Sockets : RecordedPreacher(s, r)}) <= 1

\* Two joins of the same room, both suspended on the lookup, while the room
\* has no membership set.
C2_Witness ==
    /\ "R1" \notin DOMAIN roomListeners
    /\ \A s \in Sockets :
           /\ joining[s] # Idle
           /\ joining[s].pc = "getRoomByCode"
           /\ joining[s].roomCode = "R1"

\* C5: a connection is in at most one room's membership set.
C5_InAtMostOneRoom ==
    \A s \in Sockets :
        Cardinality({r \in DOMAIN roomListeners : s \in roomListeners[r]}) <= 1

\* C8: start-transcription or stop-transcription for a room by a connection
\* not recorded as its preacher sends one Unauthorized error to the sender
\* alone and changes no state; a room's flag becomes true only by a
\* start-transcription of its recorded preacher.
C8_UnauthorizedStartStop ==
    [][/\ \A s \in Sockets : \A r \in Rooms :
             (/\ ~RecordedPreacher(s, r)
              /\ StartTranscription(s, r) \/ StopTranscription(s, r))
             => /\ \E m \in out' :
                       /\ out' = {m}
                       /\ m.ev = "error"
                       /\ m.to = {s}
                       /\ m.message \in
                              {"Unauthorized to start transcription",
                               "Unauthorized to stop transcription"}
                /\ UNCHANGED <<status, connectedUsers, roomListeners,
                               activeTranscriptions, ioRooms, joining, texts,
                               sessionContexts,
                            transcripts>>
       /\ \A r \in Rooms :
             (~FlagTrue(r) /\ FlagTrue(r)')
             => \E s \in Sockets :
                    RecordedPreacher(s, r) /\ StartTranscription(s, r)
      ]_vars

\* The preacher of another room asked to start R1 and got the error.
C8_Witness ==
    /\ RecordedPreacher("s2", "R2")
    /\ RecordedPreacher("s1", "R1")
    /\ ~FlagTrue("R1")
    /\ \E m \in out :
           /\ m.message = "Unauthorized to start transcription"
           /\ m.to = {"s2"}

\* C9: start-transcription by the room's preacher sets the flag true, stop
\* sets it false, whatever it was before, and each notifies every connected
\* member of the room.
C9_StartStopByPreacher ==
    [][\A s \in Sockets : \A r \in Rooms :
          RecordedPreacher(s, r) =>
              /\ StartTranscription(s, r) =>
                     /\ FlagTrue(r)'
                     /\ \E m \in out' :
                            /\ out' = {m}
                            /\ m.ev = "transcription-started"
                            /\ m.roomCode = r
                            /\ m.to = MapGet(roomListeners, r, {})
                                          \cap Connected(status)
                            /\ \A x \in Connected(status) :
                                   RecordedIn(x, r) => x \in m.to
              /\ StopTranscription(s, r) =>
                     /\ r \in DOMAIN activeTranscriptions'
                     /\ ~FlagTrue(r)'
                     /\ \E m \in out' :
                            /\ out' = {m}
                            /\ m.ev = "transcription-stopped"
                            /\ m.roomCode = r
                            /\ m.to = MapGet(roomListeners, r, {})
                                          \cap Connected(status)
                            /\ \A x \in Connected(status) :
                                   RecordedIn(x, r) => x \in m.to
      ]_vars

\* A stop that reached the preacher and the listener of R1.
C9_Witness ==
    /\ RecordedPreacher("s1", "R1")
    /\ RecordedListener("s2", "R1")
    /\ "R1" \in DOMAIN activeTranscriptions
    /\ ~activeTranscriptions["R1"]
    /\ \E m \in out :
           m.ev = "transcription-stopped" /\ m.to = {"s1", "s2"}

\* The languages requested in room r: the source language and the preferred
\* language of every connection recorded as a listener of the room.
LanguagesRequested(r) ==
    {SourceLanguage} \cup
    {connectedUsers[x].language : x \in {y \in Sockets : RecordedListener(y, r)}}

\* The connections the Registry makes the audience of a variant of room r in
\* the given language: the room's preacher and its listeners of that language.
Audience(r, language) ==
    {x \in Connected(status) :
        \/ RecordedPreacher(x, r)
        \/ RecordedListener(x, r) /\ connectedUsers[x].language = language}

\* C3: a language variant of a room is pushed to exactly the room's preacher
\* and the room's listeners whose preferred language is the variant's.
C3_PushedToAudience ==
    \A m \in out :
        m.ev = "new-transcript" => m.to = Audience(m.roomCode, m.language)

\* C4: a new-transcript of room R is pushed only to connections whose
\* Registry record places them in R at the time of the push.
C4_PushedInsideRoom ==
    \A m \in out :
        m.ev = "new-transcript" => \A x \in m.to : RecordedIn(x, m.roomCode)

\* C6: an accepted transcript-text is persisted once for each language in the
\* source language united with the preferred languages of the listeners
\* joined at receipt, for no other language, each record with the text as
\* received.
C6_RecordPerRequestedLanguage ==
    [][/\ \A s \in Sockets : \A r \in Rooms : \A text \in TextInputs :
             (TextReceive(s, r, text) /\ Len(texts') > Len(texts))
             => LET h == texts'[Len(texts')]
                IN /\ Range(h.targetLanguages) = LanguagesRequested(r)
                   /\ Len(h.targetLanguages) =
                          Cardinality(Range(h.targetLanguages))
                   /\ h.text = text
       /\ \A i \in 1..Len(texts) :
             TextSaveReturn(i, TRUE)
             => \E m \in out' :
                    /\ m.ev = "db:saveTranscript"
                    /\ m.roomCode = texts[i].roomCode
                    /\ m.language = texts[i].targetLanguages[texts[i].k]
                    /\ m.originalText = texts[i].text
      ]_vars

\* C7: a transcript-text of the room's preacher received while the flag is
\* false or absent, or with a text that is empty after trimming, suspends on
\* no collaborator, persists and pushes nothing, sends no error and changes
\* no state.
C7_SilentDrop ==
    [][\A s \in Sockets : \A r \in RoomCodesOf(s) : \A text \in TextInputs :
          (/\ RecordedPreacher(s, r)
           /\ ~FlagTrue(r) \/ Trim(text) = << >>
           /\ TextReceive(s, r, text))
          => /\ \A m \in out' : m.ev = "console.warn" /\ m.to = {}
             /\ UNCHANGED <<status, connectedUsers, roomListeners,
                            activeTranscriptions, ioRooms, joining, texts,
                            sessionContexts,
                            transcripts>>
      ]_vars

\* A blank text was dropped in an active room: only the warning was logged.
C7_Witness ==
    /\ \E s \in Sockets : RecordedPreacher(s, "R1")
    /\ FlagTrue("R1")
    /\ texts = << >>
    /\ out = {WarnMsg("Empty text received")}

\* C10: a transcript-text for a room from a connection not recorded as its
\* preacher sends one Unauthorized error to the sender alone, whatever the
\* flag: it suspends on no collaborator, persists and pushes nothing and
\* changes no state.
C10_UnauthorizedText ==
    [][\A s \in Sockets : \A r \in RoomCodesOf(s) : \A text \in TextInputs :
          (~RecordedPreacher(s, r) /\ TextReceive(s, r, text))
          => /\ \E m \in out' :
                    /\ out' = {m}
                    /\ m.ev = "error"
                    /\ m.to = {s}
                    /\ m.message = "Unauthorized to send transcript"
             /\ UNCHANGED <<status, connectedUsers, roomListeners,
                            activeTranscriptions, ioRooms, joining, texts,
                            sessionContexts,
                            transcripts>>
      ]_vars

\* The listener of an active room sent a text and got the error.
C10_Witness ==
    /\ RecordedListener("s2", "R1")
    /\ FlagTrue("R1")
    /\ texts = << >>
    /\ \E m \in out :
           /\ m.message = "Unauthorized to send transcript"
           /\ m.to = {"s2"}

\* C11: when translateText fails for a target language the handler still
\* holds, and then emits, a variant for every target language: the failed
\* language gets the untranslated text under its own tag, every other
\* language its translation, and 'en' the text itself.
C11_FailureKeepsEveryVariant ==
    [][\A i \in 1..Len(texts) :
          LET h == texts[i]
              n == Len(h.translations)
          IN /\ \A ok \in BOOLEAN :
                   TextTranslateReturn(i, ok) =>
                       LET g == texts'[i]
                       IN /\ g.targetLanguages = h.targetLanguages
                          /\ Len(g.translations) = n + 1
                          /\ SubSeq(g.translations, 1, n) = h.translations
                          /\ g.translations[n + 1] =
                                 IF ok
                                 THEN Translate(h.text, h.targetLanguages[n + 1])
                                 ELSE h.text
                          /\ g.pc = IF n + 1 < Len(h.targetLanguages)
                                    THEN "translateText" ELSE "getRoomByCode"
             /\ h.pc \in {"getRoomByCode", "saveTranscript"} =>
                   /\ n = Len(h.targetLanguages)
                   /\ h.translations[1] = h.text
             /\ TextSaveReturn(i, TRUE) =>
                   \E m \in out' :
                       /\ m.ev = "new-transcript"
                       /\ m.language = h.targetLanguages[h.k]
                       /\ m.originalText = h.text
                       /\ m.translatedText =
                              IF m.language = SourceLanguage THEN Null
                              ELSE h.translations[h.k]
      ]_vars

\* The Spanish translation failed and the French one succeeded: the Spanish
\* variant goes out with the untranslated text, the French one is still due.
C11_Witness ==
    /\ Len(texts) = 1
    /\ texts[1].targetLanguages = <<"en", "es", "fr">>
    /\ texts[1].pc = "saveTranscript"
    /\ texts[1].k = 3
    /\ texts[1].translations[3] = Translate(texts[1].text, "fr")
    /\ \E m \in out :
           /\ m.ev = "new-transcript"
           /\ m.language = "es"
           /\ m.translatedText = texts[1].text

\* C12: the target languages computed for a room whose preacher may send
\* text are exactly the source language united with the preferred languages
\* of the connections currently recorded as listeners of that room.
C12_TargetLanguagesAreRequested ==
    \A s \in Sockets : \A r \in Rooms :
        RecordedPreacher(s, r) => TargetLanguages(r) = LanguagesRequested(r)

\* The connections the Registry records in room r.
RecordedMembers(r) == {x \in Sockets : RecordedIn(x, r)}

\* C13: when the last connection recorded in a room leaves or disconnects,
\* the room's membership entry and its Activity Flag are removed, so that the
\* next connection to join becomes preacher of an inactive room.
C13_LastLeaveClearsRoom ==
    [][\A s \in Sockets : \A r \in Rooms :
          (/\ RecordedMembers(r) = {s}
           /\ LeaveRoom(s, r) \/ Disconnect(s))
          => /\ r \notin DOMAIN roomListeners'
             /\ r \notin DOMAIN activeTranscriptions'
      ]_vars

\* C14: when the membership set of a room becomes empty, the transcription
\* session of that room is destroyed: none remains in the session store.
C14_EmptyRoomEndsSession ==
    [][\A r \in Rooms :
          (r \in DOMAIN roomListeners /\ r \notin DOMAIN roomListeners')
          => r \notin DOMAIN sessionContexts'
      ]_vars

\* C15: of two texts accepted for the same room, every record persisted and
\* every new-transcript pushed for the one received earlier comes before any
\* record or push for the one received later.  A row is pushed in the step
\* that stores it, so the order of the rows is the order of the pushes.
C15_NoPipelining ==
    \A i \in 1..Len(transcripts) : \A j \in 1..Len(transcripts) :
        (/\ i < j
         /\ transcripts[i].roomCode = transcripts[j].roomCode
         /\ transcripts[i].originalText = LaterText)
        => transcripts[j].originalText # EarlierText

\* C16: the handler of a connection's event does not begin while the handler
\* of that connection's previous event is suspended: no start-transcription of
\* a connection for a room is handled while that connection's join-room for
\* the room is still awaiting a collaborator.
C16_JoinCompletesBeforeStart ==
    [][\A s \in Sockets : \A r \in RoomCodesOf(s) :
          (joining[s] # Idle /\ joining[s].roomCode = r)
          => ~StartTranscription(s, r)
      ]_vars

\* C17: stop-transcription by the room's preacher only sets the Activity Flag
\* to false; a text that passed the gate before and is suspended on a
\* collaborator goes on while the flag is false, each answered save being
\* persisted and pushed for its language and followed by the save of the next
\* target language; a text received while the flag is false produces no
\* handler, no record and no push.
C17_StopOnlyFlipsFlag ==
    [][/\ \A s \in Sockets : \A r \in RoomCodesOf(s) :
             (RecordedPreacher(s, r) /\ StopTranscription(s, r))
             => /\ r \in DOMAIN activeTranscriptions'
                /\ ~activeTranscriptions'[r]
                /\ \A q \in Rooms \ {r} :
                      /\ q \in DOMAIN activeTranscriptions'
                            <=> q \in DOMAIN activeTranscriptions
                      /\ q \in DOMAIN activeTranscriptions
                            => activeTranscriptions'[q]
                                   = activeTranscriptions[q]
                /\ UNCHANGED <<status, connectedUsers, roomListeners, ioRooms,
                               joining, texts, sessionContexts, transcripts>>
       /\ \A i \in 1..Len(texts) :
             ~FlagTrue(texts[i].roomCode)
             => /\ (TextTranslateReturn(i, TRUE) \/ TextTranslateReturn(i, FALSE))
                   => (/\ Len(texts') = Len(texts)
                       /\ texts'[i].pc \in {"translateText", "getRoomByCode"})
                /\ TextRoomFound(i)
                   => (/\ Len(texts') = Len(texts)
                       /\ texts'[i].pc = "saveTranscript")
                /\ TextSaveReturn(i, TRUE)
                   => LET h == texts[i]
                          language == h.targetLanguages[h.k]
                      IN /\ \A ev \in {"db:saveTranscript", "new-transcript"} :
                                \E m \in out' : /\ m.ev = ev
                                                /\ m.roomCode = h.roomCode
                                                /\ m.language = language
                                                /\ m.originalText = h.text
                         /\ h.k < Len(h.targetLanguages)
                               => /\ Len(texts') = Len(texts)
                                  /\ texts'[i].pc = "saveTranscript"
                                  /\ texts'[i].k = h.k + 1
       /\ \A s \in Sockets : \A r \in RoomCodesOf(s) : \A text \in TextInputs :
             (~FlagTrue(r) /\ TextReceive(s, r, text))
             => /\ texts' = texts
                /\ \A m \in out' :
                      m.ev \notin {"db:saveTranscript", "new-transcript"}
      ]_vars

\* A Spanish variant of R1 was persisted and pushed while the flag of R1 was
\* false: the text had passed the gate before the stop.
C17_Witness ==
    /\ "R1" \in DOMAIN activeTranscriptions
    /\ ~activeTranscriptions["R1"]
    /\ \E m \in out : /\ m.ev = "new-transcript"
                      /\ m.roomCode = "R1"
                      /\ m.language = "es"
                      /\ m.to # {}

\* C18: once the disconnect of a connection has been handled and no handler of
\* the connection is left in flight, the connection has no Registry record
\* and is in no room's membership set.
C18_DisconnectedIsGone ==
    \A s \in Sockets :
        (/\ status[s] = "disconnected"
         /\ joining[s] = Idle
         /\ \A i \in 1..Len(texts) : texts[i].socket # s)
        => /\ connectedUsers[s] = NoUser
           /\ \A r \in DOMAIN roomListeners : s \notin roomListeners[r]

\* C19: a join-room whose room code the storage does not resolve ends with
\* room-joined {success: false} sent to the joining connection alone: nothing
\* else is emitted or persisted, and the Registry, the membership sets and
\* every other map stay as they were.
C19_RoomNotFound ==
    [][\A s \in Sockets :
          JoinRoomNotFound(s)
          => /\ \E m \in out' : /\ m.ev = "room-joined"
                                /\ m.message = "Room not found"
                                /\ m.to = {s} \cap Connected(status)
             /\ \A m \in out' : m.ev = "room-joined" /\ m.to \subseteq {s}
             /\ UNCHANGED <<status, connectedUsers, roomListeners,
                            activeTranscriptions, ioRooms, texts,
                            sessionContexts, transcripts>>
      ]_vars

\* The join of s1 failed on the lookup: s1 alone was told, and has no record.
C19_Witness ==
    /\ \E m \in out : /\ m.ev = "room-joined"
                      /\ m.message = "Room not found"
                      /\ m.to = {"s1"}
    /\ joining["s1"] = Idle
    /\ connectedUsers["s1"] = NoUser
    /\ \A r \in DOMAIN roomListeners : "s1" \notin roomListeners[r]

\* C20: when the preacher of a room leaves or disconnects and the membership
\* set stays non-empty, the record of no other connection changes and the
\* room is left with no preacher; a join that registers into a non-empty
\* membership set is recorded as listener, and no step makes a connection the
\* preacher of a room whose membership set is non-empty.
C20_NoRePromotion ==
    [][/\ \A s \in Sockets : \A r \in Rooms :
             (/\ RecordedPreacher(s, r)
              /\ LeaveRoom(s, r) \/ Disconnect(s)
              /\ r \in DOMAIN roomListeners')
             => /\ \A x \in Sockets \ {s} :
                      connectedUsers'[x] = connectedUsers[x]
                /\ \A x \in Sockets :
                      ~(/\ connectedUsers'[x] # NoUser
                        /\ connectedUsers'[x].roomCode = r
                        /\ connectedUsers'[x].role = "preacher")
       /\ \A x \in Sockets : \A r \in Rooms :
             (/\ r \in DOMAIN roomListeners
              /\ roomListeners[r] # {}
              /\ JoinRegister(x)
              /\ joining[x].roomCode = r)
             => /\ connectedUsers'[x].roomCode = r
                /\ connectedUsers'[x].role = "listener"
       /\ \A x \in Sockets : \A r \in Rooms :
             (/\ r \in DOMAIN roomListeners
              /\ roomListeners[r] # {}
              /\ ~RecordedPreacher(x, r))
             => ~(/\ connectedUsers'[x] # NoUser
                  /\ connectedUsers'[x].roomCode = r
                  /\ connectedUsers'[x].role = "preacher")
      ]_vars

\* The preacher s2 of R1 left while the listener s1 stayed and then joined
\* again: both are now listeners of R1, which has no preacher.
C20_Witness ==
    /\ "R1" \in DOMAIN roomListeners
    /\ roomListeners["R1"] = {"s1", "s2"}
    /\ RecordedListener("s1", "R1")
    /\ RecordedListener("s2", "R1")

\* The transcription service answers transcript T to a call on the live
\* session whose previous answer was T as well.
SameAnswerAgain(i, T) ==
    /\ i \in 1..Len(audio)
    /\ audio[i].alive
    /\ audio[i].sessionId \in DOMAIN answered
    /\ answered[audio[i].sessionId] = T
    /\ AudioTranscribed(i, T)

\* The call answered an empty delta and ended without asking for a
\* translation.
EmptyDeltaReturned(i) ==
    /\ out' = {[ev |-> "processAudioChunk:return", to |-> {},
                roomCode |-> audio[i].sessionId, role |-> "-",
                language |-> "-", message |-> "-", originalText |-> << >>,
                translatedText |-> << >>]}
    /\ Len(audio') = Len(audio) - 1
    /\ \A k \in 1..Len(audio') : audio'[k].pc = "translateText"
          => \E j \in 1..Len(audio) : audio[j] = audio'[k]

StoredFor(i) ==
    IF audio[i].alive THEN sessionContexts[audio[i].sessionId].fullTranscript
    ELSE audio[i].session.fullTranscript

\* The delta call i extracted in this step: the new text it goes on to
\* translate, or the original text of the result it returned.
DeltaExtracted(i, delta) ==
    IF Len(audio') = Len(audio)
    THEN audio'[i].newText = delta
    ELSE \E m \in out' : /\ m.ev = "processAudioChunk:return"
                         /\ m.originalText = delta

\* F with the first occurrence of P taken out.
Splits(F, P) ==
    {n \in 0..(Len(F) - Len(P)) : SubSeq(F, n + 1, n + Len(P)) = P}

WithoutFirst(F, P) ==
    IF Splits(F, P) = {} THEN F
    ELSE LET n == CHOOSE x \in Splits(F, P) : \A y \in Splits(F, P) : x <= y
         IN [k \in 1..(Len(F) - Len(P)) |->
                IF k <= n THEN F[k] ELSE F[k + Len(P)]]

\* C22: for a stored transcript P and a fresh transcript F the extracted
\* delta is F without the first occurrence of P, trimmed; so it is trim(S)
\* when F is P followed by S, and trim(F) when P is empty or not in F.
C22_DeltaIsFreshWithoutStored ==
    [][\A i \in 1..MaxAudio : \A F \in Transcriptions :
          (i <= Len(audio) /\ AudioTranscribed(i, F))
          => LET P == StoredFor(i)
             IN /\ DeltaExtracted(i, Trim(WithoutFirst(F, P)))
                /\ \A S \in Transcriptions :
                      F = P \o S => DeltaExtracted(i, Trim(S))
                /\ P = << >> => DeltaExtracted(i, Trim(F))
                /\ Splits(F, P) = {} => DeltaExtracted(i, Trim(F))
      ]_vars

\* "a b" was answered to a session that had stored "a": the call goes on to
\* translate the delta "b".
C22_Witness ==
    /\ Len(audio) = 1
    /\ audio[1].pc = "translateText"
    /\ audio[1].alive
    /\ audio[1].newText = <<"b">>
    /\ answered["R1"] = <<"a", " ", "b">>
    /\ sessionContexts["R1"].fullTranscript = <<"a", " ", "b">>

\* C23: when the processing of an appended chunk ends, whatever its outcome,
\* the session's buffer holds at most 10 chunks, and they are the last ones of
\* the buffer as it was, in order.
C23_BufferHoldsLastTen ==
    [][\A i \in 1..MaxAudio :
          (/\ i <= Len(audio)
           /\ audio[i].alive
           /\ \/ AudioTranscribeThrows(i)
              \/ \E F \in BufferTranscriptions : AudioTranscribed(i, F)
              \/ \E ok \in BOOLEAN : AudioTranslateReturn(i, ok)
           /\ Len(audio') < Len(audio))
          => LET before == sessionContexts[audio[i].sessionId].audioChunks
                 after == sessionContexts'[audio[i].sessionId].audioChunks
             IN /\ Len(after) <= 10
                /\ Len(after) <= Len(before)
                /\ \A k \in 1..Len(after) :
                      after[k] = before[Len(before) - Len(after) + k]
      ]_vars

IsPrefix(p, q) == Len(p) <= Len(q) /\ SubSeq(q, 1, Len(p)) = p

\* C24: between startTranscriptionSession and endTranscriptionSession every
\* update of a session's stored transcript only appends: the transcript
\* stored before is a prefix of the one stored after.
C24_TranscriptOnlyGrows ==
    [][\A sessionId \in AudioSessions :
          (/\ sessionId \in DOMAIN sessionContexts
           /\ sessionId \in DOMAIN sessionContexts'
           /\ ~StartTranscriptionSession(sessionId))
          => IsPrefix(sessionContexts[sessionId].fullTranscript,
                      sessionContexts'[sessionId].fullTranscript)
      ]_vars

\* C25: a failure of the transcription while a chunk is processed ends that
\* call alone: the caller gets the error, every session is left as it was,
\* the session of the call with its stored transcript among them; and a chunk
\* sent to an existing session is buffered and goes to the transcription
\* without an error, also right after a failure.
C25_FailureAbortsOneAttempt ==
    [][/\ \A i \in 1..MaxAudio :
             (i <= Len(audio) /\ audio[i].alive /\ AudioTranscribeThrows(i))
             => LET sessionId == audio[i].sessionId
                IN /\ \E m \in out' : /\ m.ev = "processAudioChunk:throw"
                                      /\ m.roomCode = sessionId
                   /\ sessionId \in DOMAIN sessionContexts'
                   /\ sessionContexts' = sessionContexts
                   /\ Len(audio') = Len(audio) - 1
       /\ \A sessionId \in AudioSessions : \A audioBuffer \in AudioChunks :
          \A targetLanguages \in AudioTargets :
             (/\ sessionId \in DOMAIN sessionContexts
              /\ ProcessAudioChunk(sessionId, audioBuffer, targetLanguages))
             => /\ out' = {}
                /\ Len(audio') = Len(audio) + 1
                /\ audio'[Len(audio')].pc = "transcribe"
                /\ audio'[Len(audio')].sessionId = sessionId
                /\ sessionContexts'[sessionId].audioChunks
                       = Append(sessionContexts[sessionId].audioChunks,
                                audioBuffer)
                /\ sessionContexts'[sessionId].fullTranscript
                       = sessionContexts[sessionId].fullTranscript
      ]_vars

\* The transcription of the second chunk of R1 failed: the caller got the
\* error and the session still stores "a".
C25_Witness ==
    /\ \E m \in out : /\ m.ev = "processAudioChunk:throw"
                      /\ m.roomCode = "R1"
                      /\ m.message = "transcription failed"
    /\ "R1" \in DOMAIN sessionContexts
    /\ sessionContexts["R1"].fullTranscript = <<"a">>
    /\ Len(sessionContexts["R1"].audioChunks) = 2
    /\ audio = << >>

\* C26: startTranscriptionSession leaves the key with one session, of empty
\* transcript and empty buffer, whatever the key had before, and touches no
\* other key; endTranscriptionSession leaves the key with none; and a chunk
\* processed for a key without a session fails with the session-not-found
\* error and creates no session.
C26_OneSessionPerKey ==
    [][\A sessionId \in AudioSessions :
          /\ StartTranscriptionSession(sessionId)
             => /\ DOMAIN sessionContexts'
                       = DOMAIN sessionContexts \cup {sessionId}
                /\ sessionContexts'[sessionId].fullTranscript = << >>
                /\ sessionContexts'[sessionId].audioChunks = << >>
                /\ \A other \in DOMAIN sessionContexts \ {sessionId} :
                      sessionContexts'[other] = sessionContexts[other]
          /\ EndTranscriptionSession(sessionId)
             => /\ DOMAIN sessionContexts'
                       = DOMAIN sessionContexts \ {sessionId}
                /\ \A other \in DOMAIN sessionContexts' :
                      sessionContexts'[other] = sessionContexts[other]
          /\ \A audioBuffer \in AudioChunks :
             \A targetLanguages \in AudioTargets :
                (/\ sessionId \notin DOMAIN sessionContexts
                 /\ ProcessAudioChunk(sessionId, audioBuffer, targetLanguages))
                => /\ \E m \in out' :
                         /\ m.ev = "processAudioChunk:throw"
                         /\ m.roomCode = sessionId
                         /\ m.message = "Transcription session not found"
                   /\ sessionContexts' = sessionContexts
                   /\ audio' = audio
      ]_vars

\* The session of R1 was ended while a call on it was suspended, and the next
\* chunk for R1 was refused: R1 has no session.
C26_Witness ==
    /\ "R1" \notin DOMAIN sessionContexts
    /\ \E m \in out : /\ m.ev = "processAudioChunk:throw"
                      /\ m.message = "Transcription session not found"
    /\ Len(audio) = 1
    /\ ~audio[1].alive
    /\ audio[1].session.fullTranscript = <<"a">>

\* C27: whenever the transcription service answers a fresh transcript F for a
\* session, the session stores F once the answer is processed, also when the
\* delta is empty and when F is empty; and an empty delta asks for no
\* translation.  F ranges over the transcripts without surrounding
\* whitespace, which the code's trim leaves as they are.
C27_StoredIsFresh ==
    [][\A i \in 1..MaxAudio : \A F \in Transcriptions :
          (/\ i <= Len(audio)
           /\ audio[i].alive
           /\ F = Trim(F)
           /\ AudioTranscribed(i, F))
          => /\ sessionContexts'[audio[i].sessionId].fullTranscript = F
             /\ DeltaExtracted(i, << >>) => Len(audio') = Len(audio) - 1
      ]_vars

\* C28: a leave-room from a connection without a Registry record, or naming a
\* room other than the one the connection is recorded in, changes no
\* membership set, no record and no Activity Flag, and notifies nobody.
C28_LeaveElsewhereIsNoOp ==
    [][\A s \in Sockets : \A r \in Rooms :
          (~RecordedIn(s, r) /\ LeaveRoom(s, r))
          => /\ out' = {}
             /\ UNCHANGED <<status, connectedUsers, roomListeners,
                            activeTranscriptions, ioRooms, joining, texts,
                            sessionContexts>>
      ]_vars

\* s2 is recorded in R2 and a leave-room that did not concern its sender's
\* room was the last event handled: nothing was emitted.
C28_Witness ==
    /\ status = [s \in Sockets |-> "connected"]
    /\ joining = [s \in Sockets |-> Idle]
    /\ RecordedPreacher("s2", "R2")
    /\ roomListeners = [r \in {"R2"} |-> {"s2"}]
    /\ connectedUsers["s1"] = NoUser
    /\ activeTranscriptions = [r \in {"R2"} |-> TRUE]
    /\ out = {}

\* C29: when persisting the listener record of a joining listener fails, the
\* join still succeeds: no record or membership set changes, the joiner gets
\* room-joined {success: true} and every other connection recorded in the
\* room gets user-joined; and a listener record is persisted only by the join
\* of a connection assigned listener, never of one assigned preacher.
C29_ListenerRecordFailureNotFatal ==
    [][\A s \in Sockets :
          /\ JoinAddListenerReturn(s, FALSE)
             => LET r == joining[s].roomCode
                IN /\ \E m \in out' : /\ m.ev = "room-joined"
                                      /\ m.message = "success"
                                      /\ m.to = {s} \cap Connected(status)
                   /\ \E m \in out' :
                         /\ m.ev = "user-joined"
                         /\ m.roomCode = r
                         /\ m.role = "listener"
                         /\ s \notin m.to
                         /\ (RecordedMembers(r) \cap Connected(status)) \ {s}
                                \subseteq m.to
                   /\ \A m \in out' : m.ev \in {"room-joined", "user-joined"}
                   /\ UNCHANGED <<connectedUsers, roomListeners, ioRooms>>
          /\ (JoinRegister(s) /\ connectedUsers'[s].role = "preacher")
             => /\ joining'[s] = Idle
                /\ \A m \in out' : m.ev # "db:addListener"
          /\ (\E ok \in BOOLEAN : JoinAddListenerReturn(s, ok))
             => joining[s].role = "listener"
      ]_vars

\* The listener record of s2 could not be persisted: s2 is a listener of R1
\* all the same, was told so, and the preacher s1 was notified.
C29_Witness ==
    /\ RecordedListener("s2", "R1")
    /\ RecordedPreacher("s1", "R1")
    /\ roomListeners["R1"] = {"s1", "s2"}
    /\ joining["s2"] = Idle
    /\ \E m \in out : m.ev = "room-joined" /\ m.to = {"s2"}
    /\ \E m \in out : m.ev = "user-joined" /\ m.to = {"s1"}
    /\ \A m \in out : m.ev # "db:addListener"

\* C30: when persisting the record of one language variant fails, nothing is
\* pushed for that language and no error is sent; the handler goes on to the
\* next target language, whose record, once its save is answered, is
\* persisted and pushed.
C30_SaveFailureIsPerLanguage ==
    [][\A i \in 1..Len(texts) :
          /\ TextSaveReturn(i, FALSE)
             => /\ out' = {}
                /\ texts[i].k < Len(texts[i].targetLanguages)
                      => /\ Len(texts') = Len(texts)
                         /\ texts'[i].pc = "saveTranscript"
                         /\ texts'[i].k = texts[i].k + 1
                         /\ texts'[i].targetLanguages
                                = texts[i].targetLanguages
                /\ texts[i].k = Len(texts[i].targetLanguages)
                      => Len(texts') = Len(texts) - 1
          /\ TextSaveReturn(i, TRUE)
             => \A ev \in {"db:saveTranscript", "new-transcript"} :
                   \E m \in out' :
                      /\ m.ev = ev
                      /\ m.language = texts[i].targetLanguages[texts[i].k]
                      /\ m.originalText = texts[i].text
      ]_vars

\* The save of the English record failed: nothing was emitted and the handler
\* is at the save of its second language.
C30_Witness ==
    /\ Len(texts) = 1
    /\ texts[1].pc = "saveTranscript"
    /\ texts[1].k = 2
    /\ Len(texts[1].targetLanguages) = 3
    /\ out = {}

\* C31: a room-ended from any connection, with a record or without, reaches
\* every connection recorded in the named room and changes no membership set,
\* no record and no Activity Flag, so the gate of transcript-text stands as it
\* stood.
C31_RoomEndedOnlyRelays ==
    [][\A s \in Sockets : \A r \in Rooms :
          RoomEnded(s, r)
          => /\ \E m \in out' :
                   /\ m.ev = "room-ended"
                   /\ m.roomCode = r
                   /\ RecordedMembers(r) \cap Connected(status) \subseteq m.to
             /\ \A m \in out' : m.ev = "room-ended"
             /\ UNCHANGED <<status, connectedUsers, roomListeners,
                            activeTranscriptions, ioRooms, joining, texts,
                            sessionContexts>>
             /\ \A x \in Sockets :
                   (RecordedPreacher(x, r) /\ FlagTrue(r))
                   => /\ connectedUsers'[x] = connectedUsers[x]
                      /\ r \in DOMAIN activeTranscriptions'
                      /\ activeTranscriptions'[r]
      ]_vars

\* room-ended for the active R1 was relayed to its preacher s2 and its
\* listener s1; R1 is still active and both are still recorded.
C31_Witness ==
    /\ \E m \in out : /\ m.ev = "room-ended"
                      /\ m.roomCode = "R1"
                      /\ m.to = {"s1", "s2"}
    /\ RecordedPreacher("s2", "R1")
    /\ RecordedListener("s1", "R1")
    /\ FlagTrue("R1")

\* C32: a Transcript Record has no translated text (null) exactly when its
\* language is the source language; for any other language its translated
\* text is the variant translateText answered, or the source text when the
\* translation to that language failed.
C32_TranslatedTextOfRecord ==
    [][\A i \in 1..Len(texts) :
          /\ \A ok \in BOOLEAN :
                TextTranslateReturn(i, ok)
                => LET k == Len(texts[i].translations) + 1
                       language == texts[i].targetLanguages[k]
                   IN /\ language # "en"
                      /\ Len(texts'[i].translations) = k
                      /\ texts'[i].translations[k] =
                             IF ok THEN <<language>> \o texts[i].text
                             ELSE texts[i].text
          /\ TextSaveReturn(i, TRUE)
             => LET k == texts[i].k
                    language == texts[i].targetLanguages[k]
                IN \A m \in out' :
                      /\ m.language = language
                      /\ m.originalText = texts[i].text
                      /\ m.translatedText = <<"null">> <=> language = "en"
                      /\ language # "en"
                            => m.translatedText = texts[i].translations[k]
          /\ (texts[i].pc \in {"getRoomByCode", "saveTranscript"}
                /\ Len(texts') >= Len(texts))
             => texts'[i].translations = texts[i].translations
      ]_vars

\* The translation to Spanish failed and the Spanish record was persisted
\* with the source text as its translated text.
C32_Witness ==
    \E m \in out : /\ m.ev = "db:saveTranscript"
                   /\ m.language = "es"
                   /\ m.translatedText = m.originalText

\* C33: Registry consistency: every connection record with room code R
\* belongs to a connection that is a member of R's membership set, and every
\* member of R's membership set has a connection record whose room code is R.
C33_RegistryConsistent ==
    \A s \in Sockets : \A r \in Rooms :
        (connectedUsers[s] # NoUser /\ connectedUsers[s].roomCode = r)
        <=> (r \in DOMAIN roomListeners /\ s \in roomListeners[r])

\* C34: a connection's recorded role in a room is changed by no event other
\* than that connection's own leave-room or disconnect: while the connection
\* stays recorded in the room its role is the one assigned at join (also
\* across a join-room it sends for the same room), and its record is removed
\* only by its own leave-room or disconnect.
C34_RoleStable ==
    [][\A s \in Sockets : \A r \in Rooms :
          RecordedIn(s, r)
          => /\ (connectedUsers'[s] # NoUser /\ connectedUsers'[s].roomCode = r)
                => connectedUsers'[s].role = connectedUsers[s].role
             /\ connectedUsers'[s] = NoUser
                => LeaveRoom(s, r) \/ Disconnect(s)
      ]_vars

\* C35: a room whose Activity Flag is true has a membership set, and that set
\* is not empty; no membership entry is stored with an empty set.
C35_ActiveRoomHasMembers ==
    /\ \A r \in Rooms :
          (r \in DOMAIN activeTranscriptions /\ activeTranscriptions[r])
          => (r \in DOMAIN roomListeners /\ roomListeners[r] # {})
    /\ \A r \in DOMAIN roomListeners : roomListeners[r] # {}

\* The preacher is the only member of the active room R1.
C35_Witness ==
    /\ "R1" \in DOMAIN activeTranscriptions /\ activeTranscriptions["R1"]
    /\ "R1" \in DOMAIN roomListeners /\ roomListeners["R1"] = {"s1"}
    /\ "R2" \notin DOMAIN roomListeners
    /\ joinSeq["R1"] = <<"s1">>

\* C36: a leave-room or disconnect that does not empty the room's membership
\* set leaves the room's Activity Flag unchanged, also when the leaving
\* connection is the preacher; the Activity Flags and membership sets of all
\* other rooms are unchanged by any leave.
C36_LeaveKeepsFlag ==
    [][\A s \in Sockets : \A r \in Rooms :
          (LeaveRoom(s, r) \/ (Disconnect(s) /\ RecordedIn(s, r)))
          => /\ (r \in DOMAIN roomListeners' /\ roomListeners'[r] # {})
                => /\ (r \in DOMAIN activeTranscriptions')
                         = (r \in DOMAIN activeTranscriptions)
                   /\ r \in DOMAIN activeTranscriptions
                         => activeTranscriptions'[r] = activeTranscriptions[r]
             /\ \A o \in Rooms \ {r} :
                   /\ (o \in DOMAIN activeTranscriptions')
                         = (o \in DOMAIN activeTranscriptions)
                   /\ o \in DOMAIN activeTranscriptions
                         => activeTranscriptions'[o] = activeTranscriptions[o]
                   /\ (o \in DOMAIN roomListeners') = (o \in DOMAIN roomListeners)
                   /\ o \in DOMAIN roomListeners
                         => roomListeners'[o] = roomListeners[o]
      ]_vars

\* The preacher has just left the active room R1, a listener stays in it and
\* the room is still active.
C36_Witness ==
    /\ \E m \in out : m.ev = "user-left" /\ m.roomCode = "R1"
                      /\ m.role = "preacher"
    /\ "R1" \in DOMAIN roomListeners /\ roomListeners["R1"] # {}
    /\ "R1" \in DOMAIN activeTranscriptions /\ activeTranscriptions["R1"]

\* C37: when the room no longer resolves at the persistence step of an
\* accepted text, no Transcript Record is persisted and no new-transcript is
\* pushed for that text, the sender alone receives a room-not-found error,
\* and the Registry and the Activity Flags are unchanged.
C37_RoomGoneAtPersistence ==
    [][\A i \in 1..Len(texts) :
          TextRoomNotFound(i)
          => /\ transcripts' = transcripts
             /\ \A k \in 1..Len(transcripts') :
                   transcripts'[k].originalText # texts[i].text
             /\ \A j \in 1..Len(texts') : texts'[j].text # texts[i].text
             /\ \A m \in out' : /\ m.ev = "error"
                                /\ m.message = "Room not found"
                                /\ m.to = {texts[i].socket}
             /\ out' # {}
             /\ UNCHANGED <<connectedUsers, roomListeners, activeTranscriptions>>
      ]_vars

\* The sender was told the room was not found for one of its two texts; the
\* records of the other text were persisted.
C37_Witness ==
    /\ \E m \in out : /\ m.ev = "error" /\ m.message = "Room not found"
                      /\ m.to = {"s1"}
    /\ texts = << >>
    /\ transcripts # << >>
    /\ \A k \in 1..Len(transcripts) : transcripts[k].originalText = <<"a">>

\* C38: when two processings of one session overlap, then in whichever order
\* the transcription service answers, once both have completed the stored
\* full transcript is the transcript of the larger, later-submitted buffer,
\* and no text is emitted in more than one delta: the delta a call takes out
\* of its answer holds no text that the transcript stored before it, already
\* emitted, held.
C38_OverlapKeepsLatest ==
    [][/\ audio' = << >>
          => sessionContexts'["R1"].fullTranscript
                = TranscriptOf(sessionContexts'["R1"].audioChunks)
       /\ answered' # answered
          => LET stored == sessionContexts["R1"].fullTranscript
                 deltas ==
                     IF Len(audio') < Len(audio)
                     THEN {m.originalText : m \in out'}
                     ELSE {audio'[i].newText :
                              i \in {j \in 1..Len(audio) :
                                        audio'[j].pc # audio[j].pc}}
             IN \A delta \in deltas \ {<< >>} :
                   ~\E k \in 0..Len(stored) :
                       /\ k + Len(delta) <= Len(stored)
                       /\ SubSeq(stored, k + 1, k + Len(delta)) = delta
      ]_vars

\* The handler of a text among the suspended handlers, if there is one.
Handled(handlers, text) ==
    \E i \in 1..Len(handlers) : handlers[i].text = text

HandlerOf(handlers, text) ==
    handlers[CHOOSE i \in 1..Len(handlers) : handlers[i].text = text]

\* The step moved the handler of the text on from the await it was at.
Resumed(text) ==
    /\ Handled(texts, text)
    /\ Handled(texts', text)
          => \/ HandlerOf(texts', text).pc # HandlerOf(texts, text).pc
             \/ HandlerOf(texts', text).k # HandlerOf(texts, text).k
             \/ HandlerOf(texts', text).translations
                   # HandlerOf(texts, text).translations

\* One save is attempted for each target language in turn: the first after
\* the room was looked up, the next after each answer, whatever it was.
SavesInTurn(text) ==
    LET h == HandlerOf(texts, text)
    IN (Resumed(text) /\ Handled(texts', text))
       => LET g == HandlerOf(texts', text)
          IN /\ g.targetLanguages = h.targetLanguages
             /\ h.pc = "translateText"
                   => g.pc \in {"translateText", "getRoomByCode"} /\ g.k = h.k
             /\ h.pc = "getRoomByCode" => g.pc = "saveTranscript" /\ g.k = 1
             /\ h.pc = "saveTranscript"
                   => g.pc = "saveTranscript" /\ g.k = h.k + 1

\* The row the step stored is the source-language record of the text.
StoredSource(text) ==
    /\ Len(transcripts') = Len(transcripts) + 1
    /\ transcripts'[Len(transcripts')].originalText = text
    /\ transcripts'[Len(transcripts')].language = "en"

\* A source-language record stored while the sender is joined as preacher
\* is pushed to it.
PreacherGetsSource(text) ==
    LET h == HandlerOf(texts, text)
    IN (/\ Handled(texts, text)
        /\ StoredSource(text)
        /\ status[h.socket] = "connected"
        /\ RecordedPreacher(h.socket, h.roomCode))
       => \E m \in out' : /\ m.ev = "new-transcript"
                          /\ m.language = "en"
                          /\ m.originalText = text
                          /\ h.socket \in m.to

\* C39 as stated: with every collaborator call returning, every accepted text
\* eventually finishes being handled, having attempted persistence exactly
\* once for each of its target languages; and a source-language record that
\* is stored while the preacher stays joined is pushed to the preacher.
C39_EveryTextPersistedOnce ==
    /\ \A text \in {EarlierText, LaterText} :
          Handled(texts, text) ~> ~Handled(texts, text)
    /\ [][\A text \in {EarlierText, LaterText} :
             Handled(texts, text)
             => /\ SavesInTurn(text)
                /\ PreacherGetsSource(text)
                /\ ~Handled(texts', text)
                      => LET h == HandlerOf(texts, text)
                         IN /\ h.pc = "saveTranscript"
                            /\ h.k = Len(h.targetLanguages)
         ]_vars

\* C39 (amended): ... every accepted text eventually finishes being handled,
\* having attempted persistence exactly once for each of its target
\* languages, or none at all when the room lookup failed or found no room
\* (the sender then gets an error); and a source-language record that is
\* stored while the preacher stays joined is pushed to the preacher.
C39_EveryTextFinishes ==
    /\ \A text \in {EarlierText, LaterText} :
          Handled(texts, text) ~> ~Handled(texts, text)
    /\ [][\A text \in {EarlierText, LaterText} :
             Handled(texts, text)
             => /\ SavesInTurn(text)
                /\ PreacherGetsSource(text)
                /\ ~Handled(texts', text)
                      => LET h == HandlerOf(texts, text)
                         IN \/ /\ h.pc = "saveTranscript"
                               /\ h.k = Len(h.targetLanguages)
                            \/ /\ h.pc = "getRoomByCode"
                               /\ transcripts' = transcripts
                               /\ \A k \in 1..Len(transcripts) :
                                     transcripts[k].originalText # text
                               /\ \A m \in out' : m.ev = "error"
                               /\ status[h.socket] = "connected" => out' # {}
         ]_vars

\* Both texts are finished, the preacher is still joined, and the last step
\* stored a source-language record and pushed it to the preacher.
C39_Witness ==
    /\ texts = << >>
    /\ Len(transcripts) >= 2
    /\ RecordedPreacher("s1", "R1") /\ status["s1"] = "connected"
    /\ \E m \in out : /\ m.ev = "new-transcript" /\ m.language = "en"
                      /\ "s1" \in m.to

TypeOK ==
    /\ status \in [Sockets -> {"connected", "disconnected"}]
    /\ DOMAIN roomListeners \subseteq Rooms
    /\ DOMAIN activeTranscriptions \subseteq Rooms
    /\ Len(texts) <= MaxTexts \/ Len(texts) <= MaxPipelined
====
